---- MODULE Spec2Model ----
(***************************************************************************)
(* A model of the layout generator of rusylyzer (src/src/generate.rs), of  *)
(* the layout registry (src/src/analyze.rs) and of the corpus loader       *)
(* (src/oxeylyzer-core/src/language_data.rs).                              *)
(*                                                                         *)
(* Frequencies, weights and distances are integers: the code's f64         *)
(* arithmetic is modelled exactly (no rounding), so "within 1e-7" becomes  *)
(* equality.                                                               *)
(***************************************************************************)
EXTENDS Integers, Sequences, FiniteSets, TLC

VARIABLES
    data,               \* self.data: the language model
    weights,            \* self.weights
    trigram_precision,  \* the constructor's trigram_precision
    per_char_trigrams,  \* self.per_char_trigrams
    fspeed_vals,        \* self.fspeed_vals
    effort_map,         \* self.effort_map
    layout,             \* the FastLayout being worked on
    cache,              \* its LayoutCache
    nswaps,             \* number of accept_swap calls made by the driver
    last,               \* the last operation and what it returned
    pc,                 \* where optimize / generate_pinned stands
    entry,              \* the entry point that was called
    possible_swaps,     \* the candidate list it was called with
    based_on,           \* generate_pinned: the template's matrix
    pins,               \* generate_pinned: the pinned positions
    start_layout,       \* the layout the optimizer started from
    current_best_score, \* optimize_cached's local
    optimized_score,    \* optimize's local
    with_col_score,     \* optimize's local
    best_score,         \* optimize_cols' local
    best,               \* optimize_cols' local
    pass,               \* which of the two col_perms calls is running
    step,               \* the position inside that col_perms call
    tasks,              \* generate_n: each parallel task's position and locals
    caches,             \* generate_n: the LayoutCache of each task's optimize call
    collected,          \* generate_n: the `layouts` vector the tasks' results go to
    temp_generated,     \* self.temp_generated
    files,              \* the language's layout directory, in read_dir order
    layouts,            \* the registry: self.layouts, in iteration order
    owner,              \* whose registry it is: LayoutGeneration or LayoutAnalysis
    regpc,              \* where the registry's owner stands
    nsaves,             \* number of save calls made
    saved,              \* the last save call: its arguments, the name it chose, the registry and directory it found
    reported,           \* names printed as "not formatted correctly" by load_layouts
    inter,              \* LanguageDataInter: the deserialized tables of the language file
    convert_u8,         \* the ConvertU8 codec: the characters in the order of their ids
    loaded,             \* what the loader or the statistics call returned
    langpc              \* where the loader stands

genVars == <<data, weights, trigram_precision, per_char_trigrams, fspeed_vals, effort_map>>

drvVars == <<nswaps, last>>

optVars ==
    <<pc, entry, possible_swaps, based_on, pins, start_layout, current_best_score,
      optimized_score, with_col_score, best_score, best, pass, step>>

parVars == <<tasks, caches, collected, temp_generated>>

regVars == <<files, layouts, owner, regpc, nsaves, saved, reported>>

langVars == <<inter, convert_u8, loaded, langpc>>

(***************************************************************************)
(* Small helpers.                                                          *)
(***************************************************************************)
Abs(x) == IF x < 0 THEN -x ELSE x

\* The value of a singleton set. The({F(x) : x \in {e}}) is F(e) with e
\* computed once, before F: the way a `let` binds a value in the code.
The(S) == CHOOSE x \in S : TRUE

Max(a, b) == The({IF x >= y THEN x ELSE y : x \in {a}, y \in {b}})

\* Sum of f[lo] + ... + f[hi] (0 when lo > hi).
RECURSIVE SumRange(_, _, _)
SumRange(f, lo, hi) == IF lo > hi THEN 0 ELSE f[lo] + SumRange(f, lo + 1, hi)

\* Sum of the elements of a sequence.
SumSeq(s) == The({SumRange(f, 1, Len(f)) : f \in {s}})

\* map.get(key).unwrap_or(0.0)
Get(map, key) == The({IF k \in DOMAIN map THEN map[k] ELSE 0 : k \in {key}})

\* itertools' combinations(2) of a sequence: the pairs <<s[a], s[b]>>, a < b,
\* in lexicographic order of (a, b).
RECURSIVE Combinations2From(_, _, _)
Combinations2From(s, a, b) ==
    IF a >= Len(s) THEN <<>>
    ELSE IF b > Len(s) THEN Combinations2From(s, a + 1, a + 2)
    ELSE <<(<<s[a], s[b]>>)>> \o Combinations2From(s, a, b + 1)

Combinations2(s) == Combinations2From(s, 1, 2)

(***************************************************************************)
(* Geometry tables.                                                        *)
(***************************************************************************)
NumKeys == 30

NumCols == 8

Positions == 0 .. (NumKeys - 1)

Columns == 0 .. (NumCols - 1)

\* f64::MIN, the sentinel optimize starts from; every score of the model
\* lies far above F64Min \div 2.
F64Min == -1000000

\* static COLS: the top-row positions of the six non-index columns.
COLS == [i \in 0 .. 5 |-> <<0, 1, 2, 7, 8, 9>>[i + 1]]

\* self.i_to_col
i_to_col ==
    [i \in Positions |-> <<0, 1, 2, 3, 3, 4, 4, 5, 6, 7>>[(i % 10) + 1]]

\* POSSIBLE_SWAPS: all C(30,2) = 435 unordered position pairs <<i, j>>,
\* i < j, in lexicographic order: the pairs of position i, then those of
\* positions i + 1, ...
RECURSIVE SwapsFrom(_)
SwapsFrom(i) ==
    IF i >= NumKeys - 1 THEN <<>>
    ELSE [j \in 1 .. (NumKeys - 1 - i) |-> <<i, i + j>>] \o SwapsFrom(i + 1)

POSSIBLE_SWAPS == SwapsFrom(0)

\* get_scissor_indices(): the 15 position pairs counted as scissors.
scissor_indices ==
    << <<0, 11>>, <<9, 18>>, <<2, 24>>, <<22, 4>>, <<5, 27>>,
       <<0, 21>>, <<1, 20>>, <<1, 22>>, <<2, 21>>, <<3, 22>>,
       <<6, 27>>, <<7, 28>>, <<8, 27>>, <<8, 29>>, <<9, 28>> >>

\* PosPair::affects_scissor: either position occurs in a scissor pair.
affects_scissor(swap) ==
    \E k \in 1 .. Len(scissor_indices) :
        \/ swap[1] \in {scissor_indices[k][1], scissor_indices[k][2]}
        \/ swap[2] \in {scissor_indices[k][1], scissor_indices[k][2]}

\* The same-finger position pairs behind get_fspeed, in table order: three
\* pairs for each of the six non-index columns, then fifteen for each index
\* finger.
sfb_indices ==
    LET col3(c) == Combinations2(<<c, c + 10, c + 20>>)
        idx(i) == Combinations2(<<3 + i, 13 + i, 23 + i, 4 + i, 14 + i, 24 + i>>)
    IN  col3(0) \o col3(1) \o col3(2) \o col3(7) \o col3(8) \o col3(9)
            \o idx(0) \o idx(2)

\* The distance of a same-finger pair: lateral stretch times the lateral
\* penalty and vertical travel, combined as the squared euclidean length (an
\* integer; the code takes the square root).
get_distance(pair, lateral_penalty) ==
    LET dx == Abs((pair[1] % 10) - (pair[2] % 10)) * lateral_penalty
        dy == Abs((pair[1] \div 10) - (pair[2] \div 10))
    IN  dx * dx + dy * dy

\* get_fspeed(lateral_penalty): [(PosPair, dist); 48], indexed from 0.
get_fspeed(lateral_penalty) ==
    [i \in 0 .. 47 |->
        <<sfb_indices[i + 1], get_distance(sfb_indices[i + 1], lateral_penalty)>>]

\* The baseline cost of each position (tenths).
EffortBase ==
    << 30, 24, 20, 22, 24, 33, 22, 20, 24, 30,
       18, 13, 11, 10, 26, 26, 10, 11, 13, 18,
       33, 28, 24, 18, 22, 22, 18, 24, 28, 33 >>

\* get_effort_map(heatmap): the baseline scaled by the heatmap weight.
get_effort_map(heatmap) == [i \in Positions |-> EffortBase[i + 1] * heatmap]

(***************************************************************************)
(* FastLayout: the matrix and its reverse index.                           *)
(***************************************************************************)
\* FastLayout::try_from / FastLayout::random: a layout over a matrix.
MakeLayout(matrix) ==
    [matrix |-> matrix,
     reverse_index |->
        [c \in {matrix[i] : i \in Positions} |->
            CHOOSE i \in Positions : matrix[i] = c]]

\* FastLayout::swap_pair_no_bounds
swap_pair_no_bounds(l, swap) ==
    The({[matrix |-> [l.matrix EXCEPT ![i1] = c2, ![i2] = c1],
          reverse_index |-> [l.reverse_index EXCEPT ![c1] = i2, ![c2] = i1]] :
            i1 \in {swap[1]}, i2 \in {swap[2]},
            c1 \in {l.matrix[swap[1]]}, c2 \in {l.matrix[swap[2]]}})

(***************************************************************************)
(* The trigram classifier.                                                 *)
(***************************************************************************)
\* The hand of a position: columns 0..3 are the left hand's fingers.
IsLeft(p) == (p % 10) < 5

\* Rolling towards the index finger: rising columns on the left hand,
\* falling columns on the right hand.
IsInward(pa, pb) ==
    IF IsLeft(pa) THEN i_to_col[pa] < i_to_col[pb] ELSE i_to_col[pa] > i_to_col[pb]

\* The pattern of three positions.
TrigramPatternOf(p1, p2, p3) ==
    The({
        IF c1 = c2 /\ c2 = c3 THEN "Sft"
        ELSE IF c1 = c2 \/ c2 = c3 THEN
            (IF h1 = h2 /\ h2 = h3 THEN "BadSfb" ELSE "Sfb")
        ELSE IF h1 = h2 /\ h2 = h3 THEN
            (IF (c1 < c2 /\ c2 < c3) \/ (c1 > c2 /\ c2 > c3) THEN "Onehand"
             ELSE IF {c1, c2, c3} \cap {3, 4} = {} THEN "BadRedirect"
             ELSE "Redirect")
        ELSE IF h1 = h3 THEN
            (IF c1 = c3 THEN "AlternateSfs" ELSE "Alternate")
        ELSE IF h1 = h2 THEN
            (IF IsInward(p1, p2) THEN "Inroll" ELSE "Outroll")
        ELSE
            (IF IsInward(p2, p3) THEN "Inroll" ELSE "Outroll") :
        c1 \in {i_to_col[p1]}, c2 \in {i_to_col[p2]}, c3 \in {i_to_col[p3]},
        h1 \in {IsLeft(p1)}, h2 \in {IsLeft(p2)}, h3 \in {IsLeft(p3)}})

\* FastLayout::get_trigram_pattern: a trigram with a character that is not on
\* the layout is Invalid.
get_trigram_pattern(l, trigram) ==
    IF \E k \in 1 .. 3 : trigram[k] \notin DOMAIN l.reverse_index THEN "Invalid"
    ELSE The({TrigramPatternOf(p1, p2, p3) :
                p1 \in {l.reverse_index[trigram[1]]},
                p2 \in {l.reverse_index[trigram[2]]},
                p3 \in {l.reverse_index[trigram[3]]}})

(***************************************************************************)
(* The scorer.                                                             *)
(***************************************************************************)
\* The weight trigram_score_iter gives a pattern.
PatternWeight(p) ==
    The({
    CASE pattern = "Inroll" -> weights.inrolls
      [] pattern = "Outroll" -> weights.outrolls
      [] pattern = "Onehand" -> weights.onehands
      [] pattern = "Alternate" -> weights.alternates
      [] pattern = "AlternateSfs" -> weights.alternates_sfs
      [] pattern = "Redirect" -> -weights.redirects
      [] pattern = "BadRedirect" -> -weights.bad_redirects
      [] OTHER -> 0 : pattern \in {p}})

\* trigram_score_iter over a sequence of <<trigram, freq>>.
trigram_score_iter(l, trigrams) ==
    The({SumSeq([k \in 1 .. Len(ts) |->
                PatternWeight(get_trigram_pattern(l, ts[k][1])) * ts[k][2]]) :
            ts \in {trigrams}})

\* t.contains(c)
Contains(t, c) == \E k \in 1 .. 3 : t[k] = c

\* The sub-sequence of the entries of s, from index k on, whose trigram
\* contains c (want = TRUE) or does not contain it (want = FALSE).
RECURSIVE Filter(_, _, _, _)
Filter(s, k, c, want) ==
    IF k > Len(s) THEN <<>>
    ELSE (IF Contains(s[k][1], c) = want THEN <<s[k]>> ELSE <<>>)
            \o Filter(s, k + 1, c, want)

\* truncate(n)
Truncate(s, n) == IF Len(s) <= n THEN s ELSE SubSeq(s, 1, n)

\* LayoutGeneration::per_char_trigrams(trigrams, possible, trigram_precision)
build_per_char_trigrams(trigrams, possible, precision) ==
    LET n_trigrams == Truncate(trigrams, precision)
    IN  [c \in possible |->
            Filter(n_trigrams, 1, c, TRUE)]

\* trigram_char_score with the smaller list chained unfiltered.
trigram_char_score_unfiltered(l, pos) ==
    The({
        LET some1 == c1 \in DOMAIN per_char_trigrams
            some2 == c2 \in DOMAIN per_char_trigrams
        IN  IF ~some1 /\ ~some2 THEN 0
            ELSE IF some1 /\ ~some2 THEN trigram_score_iter(l, per_char_trigrams[c1])
            ELSE IF ~some1 /\ some2 THEN trigram_score_iter(l, per_char_trigrams[c2])
            ELSE trigram_score_iter(l, per_char_trigrams[c1] \o per_char_trigrams[c2]) :
        c1 \in {l.matrix[pos[1]]}, c2 \in {l.matrix[pos[2]]}})

\* trigram_char_score
trigram_char_score(l, pos) ==
    The({
        LET some1 == c1 \in DOMAIN per_char_trigrams
            some2 == c2 \in DOMAIN per_char_trigrams
        IN  IF ~some1 /\ ~some2 THEN 0
            ELSE IF some1 /\ ~some2 THEN trigram_score_iter(l, per_char_trigrams[c1])
            ELSE IF ~some1 /\ some2 THEN trigram_score_iter(l, per_char_trigrams[c2])
            ELSE
                The({IF Len(v1) >= Len(v2)
                     THEN trigram_score_iter(l, v1 \o Filter(v2, 1, c1, FALSE))
                     ELSE trigram_score_iter(l, v2 \o Filter(v1, 1, c2, FALSE)) :
                        v1 \in {per_char_trigrams[c1]}, v2 \in {per_char_trigrams[c2]}}) :
        c1 \in {l.matrix[pos[1]]}, c2 \in {l.matrix[pos[2]]}})

\* scissor_score
scissor_score(l) ==
    SumSeq([k \in 1 .. Len(scissor_indices) |->
        The({Get(data.bigrams, <<c1, c2>>) + Get(data.bigrams, <<c2, c1>>) :
                c1 \in {l.matrix[scissor_indices[k][1]]},
                c2 \in {l.matrix[scissor_indices[k][2]]}})])
    * weights.scissors

\* The positions whose characters col_usage adds up for a column.
ColPositions(col) ==
    IF col \in {0, 1, 2} THEN <<col, col + 10, col + 20>>
    ELSE IF col \in {3, 4} THEN
        LET c == (col - 3) * 2 + 3
        IN  <<c, c + 10, c + 20, c + 1, c + 11, c + 21>>
    ELSE <<col + 2, col + 12, col + 22>>

\* col_usage
col_usage(l, col) ==
    LET m == weights.max_finger_use
        limit == IF col \in {0, 7} THEN m.pinky
                 ELSE IF col \in {1, 6} THEN m.ring
                 ELSE IF col \in {2, 5} THEN m.middle
                 ELSE m.index
    IN  The({m.penalty * Max(res - limit, 0) :
                res \in {The({SumSeq([k \in 1 .. Len(ps) |->
                                        Get(data.characters, l.matrix[ps[k]])]) :
                                ps \in {ColPositions(col)}})}})

\* col_to_start_len
\* col_to_start_len with the index columns' ranges three entries long, as the
\* other columns' are.
col_to_start_len_short_index(col) ==
    IF col \in {0, 1, 2} THEN <<col * 3, 3>>
    ELSE IF col \in {3, 4} THEN <<18 + ((col - 3) * 15), 3>>
    ELSE <<(col - 2) * 3, 3>>

col_to_start_len(col) ==
    IF col \in {0, 1, 2} THEN <<col * 3, 3>>
    ELSE IF col \in {3, 4} THEN <<18 + ((col - 3) * 15), 15>>
    ELSE <<(col - 2) * 3, 3>>

\* col_fspeed
\* col_fspeed: `for i in start..(start+len)`, the indices of fspeed_vals it
\* visits for a column.
fspeed_range(col) ==
    The({[k \in 1 .. sl[2] |-> sl[1] + k - 1] : sl \in {col_to_start_len(col)}})

col_fspeed(l, col) ==
    LET term(i) ==
            The({(Get(data.bigrams, pair) + Get(data.bigrams, rev)) * dist
                 + (Get(data.skipgrams, pair) + Get(data.skipgrams, rev))
                     * dist * weights.dsfb_ratio
                 + (Get(data.skipgrams2, pair) + Get(data.skipgrams2, rev))
                     * dist * weights.dsfb_ratio2
                 + (Get(data.skipgrams3, pair) + Get(data.skipgrams3, rev))
                     * dist * weights.dsfb_ratio3 :
                pair \in {<<l.matrix[fspeed_vals[i][1][1]], l.matrix[fspeed_vals[i][1][2]]>>},
                rev \in {<<l.matrix[fspeed_vals[i][1][2]], l.matrix[fspeed_vals[i][1][1]]>>},
                dist \in {fspeed_vals[i][2]}})
    IN  The({SumSeq([k \in 1 .. Len(r) |-> term(r[k])]) :
                r \in {fspeed_range(col)}}) * weights.fspeed

\* char_effort
char_effort(l, i) == Get(data.characters, l.matrix[i]) * effort_map[i]

\* LayoutGeneration::score
score(l) ==
    LET effort == SumRange([i \in Positions |-> char_effort(l, i)], 0, NumKeys - 1)
        fspeed_usage ==
            SumRange([col \in Columns |-> col_usage(l, col) + col_fspeed(l, col)],
                     0, NumCols - 1)
        scissors == scissor_score(l)
        trigram_score == trigram_score_iter(l, data.trigrams)
    IN  trigram_score - effort - fspeed_usage - scissors

(***************************************************************************)
(* The incremental cache.                                                  *)
(***************************************************************************)
\* LayoutCache::total_score
total_score(c) ==
    c.trigrams_total - c.scissors - c.effort_total - c.usage_total - c.fspeed_total

\* initialize_cache
initialize_cache(l) ==
    LET effort == [i \in Positions |-> char_effort(l, i)]
        usage == [col \in Columns |-> col_usage(l, col)]
        fspeed == [col \in Columns |-> col_fspeed(l, col)]
    IN  [effort |-> effort,
         effort_total |-> SumRange(effort, 0, NumKeys - 1),
         usage |-> usage,
         usage_total |-> SumRange(usage, 0, NumCols - 1),
         fspeed |-> fspeed,
         fspeed_total |-> SumRange(fspeed, 0, NumCols - 1),
         scissors |-> scissor_score(l),
         trigrams_total |-> trigram_score_iter(l, data.trigrams)]

\* The cache's aggregates as score_swap_cached and accept_swap recompute
\* them on the layout l, which already holds the swap: the per-column and
\* per-position partials of the touched columns and positions, and the totals.
SwapUpdate(l, swap, c, trigrams_start) ==
    The({The({
            [fspeed |->
                IF col1 = col2 THEN [c.fspeed EXCEPT ![col1] = n.fspeed1]
                ELSE [c.fspeed EXCEPT ![col1] = n.fspeed1, ![col2] = n.fspeed2],
             fspeed_total |->
                IF col1 = col2 THEN c.fspeed_total - c.fspeed[col1] + n.fspeed1
                ELSE c.fspeed_total - c.fspeed[col1] - c.fspeed[col2]
                        + n.fspeed1 + n.fspeed2,
             usage |->
                IF col1 = col2 THEN [c.usage EXCEPT ![col1] = n.usage1]
                ELSE [c.usage EXCEPT ![col1] = n.usage1, ![col2] = n.usage2],
             usage_total |->
                IF col1 = col2 THEN c.usage_total - c.usage[col1] + n.usage1
                ELSE c.usage_total - c.usage[col1] - c.usage[col2]
                        + n.usage1 + n.usage2,
             effort |-> [[c.effort EXCEPT ![i1] = n.effort1] EXCEPT ![i2] = n.effort2],
             effort_total |->
                c.effort_total - c.effort[i1] - c.effort[i2] + n.effort1 + n.effort2,
             trigrams_total |-> c.trigrams_total - trigrams_start + n.trigrams_end,
             scissors |-> IF affects_scissor(swap) THEN scissor_score(l) ELSE c.scissors] :
            n \in {[fspeed1 |-> col_fspeed(l, col1),
                    fspeed2 |-> col_fspeed(l, col2),
                    usage1 |-> col_usage(l, col1),
                    usage2 |-> col_usage(l, col2),
                    effort1 |-> char_effort(l, i1),
                    effort2 |-> char_effort(l, i2),
                    trigrams_end |-> trigram_char_score(l, swap)]}}) :
        i1 \in {swap[1]}, i2 \in {swap[2]},
        col1 \in {i_to_col[swap[1]]}, col2 \in {i_to_col[swap[2]]}})

\* score_swap_cached that returns without the second swap_pair_no_bounds.
score_swap_cached_no_unswap(l, swap, c) ==
    The({[ret |-> total_score(SwapUpdate(swapped, swap, c, trigram_char_score(l, swap))),
          layout |-> swapped] :
            swapped \in {swap_pair_no_bounds(l, swap)}})

\* score_swap_cached: the score it returns and the layout it leaves behind
\* (swapped, scored, swapped back).
score_swap_cached(l, swap, c) ==
    The({[ret |-> total_score(SwapUpdate(swapped, swap, c, trigram_char_score(l, swap))),
          layout |-> swap_pair_no_bounds(swapped, swap)] :
            swapped \in {swap_pair_no_bounds(l, swap)}})

\* accept_swap that exchanges the two matrix slots and leaves the reverse
\* index as it was.
accept_swap_stale_index(l, swap, c) ==
    The({[layout |-> [swapped EXCEPT !.reverse_index = l.reverse_index],
          cache |-> SwapUpdate(swapped, swap, c, trigram_char_score(l, swap))] :
            swapped \in {swap_pair_no_bounds(l, swap)}})

\* accept_swap without `cache.effort[i1] = effort1; cache.effort[i2] = effort2`.
accept_swap_stale_effort(l, swap, c) ==
    The({[layout |-> swapped,
          cache |-> [SwapUpdate(swapped, swap, c, trigram_char_score(l, swap))
                        EXCEPT !.effort = c.effort]] :
            swapped \in {swap_pair_no_bounds(l, swap)}})

\* accept_swap that never recomputes cache.scissors.
accept_swap_stale_scissors(l, swap, c) ==
    The({[layout |-> swapped,
          cache |-> [SwapUpdate(swapped, swap, c, trigram_char_score(l, swap))
                        EXCEPT !.scissors = c.scissors]] :
            swapped \in {swap_pair_no_bounds(l, swap)}})

\* accept_swap: the layout and the cache it leaves behind.
accept_swap(l, swap, c) ==
    The({[layout |-> swapped,
          cache |-> SwapUpdate(swapped, swap, c, trigram_char_score(l, swap))] :
            swapped \in {swap_pair_no_bounds(l, swap)}})

\* Option: None, or Some(x).
None == <<>>

Some(x) == <<x>>

unwrap(o) == o[1]

\* The names bigram_percent knows a table by.
BigramNames == {"bigram", "bigrams", "sfb", "sfbs"}

Skipgram2Names == {"skipgram2", "skipgrams2", "dsfb2", "dsfbs2"}

Skipgram3Names == {"skipgram3", "skipgrams3", "dsfb3", "dsfbs3"}

\* bigram_percent: the `match bigram_type` that picks the table: None when it
\* panics ("bigram type .. does not exist!").
bigram_table(bigram_type) ==
    IF bigram_type \in BigramNames THEN Some(data.skipgrams)
    ELSE IF bigram_type \in Skipgram2Names THEN Some(data.skipgrams)
    ELSE IF bigram_type \in Skipgram3Names THEN Some(data.skipgrams)
    ELSE None

\* bigram_percent: the sum over the pairs of fspeed_vals, or None for the panic.
bigram_percent(l, bigram_type) ==
    The({IF t = None THEN None
         ELSE Some(SumSeq([k \in 1 .. 48 |->
                The({Get(unwrap(t), <<c1, c2>>) + Get(unwrap(t), <<c2, c1>>) :
                        c1 \in {l.matrix[fspeed_vals[k - 1][1][1]]},
                        c2 \in {l.matrix[fspeed_vals[k - 1][1][2]]}})])) :
            t \in {bigram_table(bigram_type)}})

\* The loop body of best_swap_cached with `>=` for `>`: a candidate that
\* ties the running best replaces it.
BestSwapStepTies(c, swap, acc) ==
    The({IF r.ret >= acc.score
         THEN [swap |-> Some(swap), score |-> r.ret, layout |-> r.layout]
         ELSE [acc EXCEPT !.layout = r.layout] :
            r \in {score_swap_cached(acc.layout, swap, c)}})

\* One iteration of the loop of best_swap_cached: candidate swap against the
\* running (best_swap, best_score, layout) in acc.
BestSwapStep(c, swap, acc) ==
    The({IF r.ret > acc.score
         THEN [swap |-> Some(swap), score |-> r.ret, layout |-> r.layout]
         ELSE [acc EXCEPT !.layout = r.layout] :
            r \in {score_swap_cached(acc.layout, swap, c)}})

\* The loop of best_swap_cached over candidates lo..hi, in order; the range
\* is split in halves, and the first half's result is bound by a quantifier
\* so that it is computed once, before the second half starts.
RECURSIVE BestSwapLoop(_, _, _, _, _)
BestSwapLoop(c, swaps, lo, hi, acc) ==
    IF lo > hi THEN acc
    ELSE IF lo = hi THEN BestSwapStep(c, swaps[lo], acc)
    ELSE The({The({BestSwapLoop(c, swaps, mid + 1, hi, left) :
                        left \in {BestSwapLoop(c, swaps, lo, mid, acc)}}) :
                mid \in {(lo + hi) \div 2}})

\* best_swap_cached that starts from f64::MIN / 2.0 whatever current_best_score is.
best_swap_cached_from_min(l, c, current_best, swaps) ==
    BestSwapLoop(c, swaps, 1, Len(swaps),
                 [swap |-> None, score |-> F64Min \div 2, layout |-> l])

\* best_swap_cached
best_swap_cached(l, c, current_best, swaps) ==
    BestSwapLoop(c, swaps, 1, Len(swaps),
                 [swap |-> None,
                  score |-> IF current_best = None THEN F64Min \div 2
                            ELSE unwrap(current_best),
                  layout |-> l])

\* pinned_swaps(pins): the swaps of POSSIBLE_SWAPS with both positions
\* unpinned, in the order of POSSIBLE_SWAPS (the loop over indices lo..hi,
\* split in halves).
RECURSIVE PinnedRange(_, _, _)
PinnedRange(pinned, lo, hi) ==
    IF lo > hi THEN <<>>
    ELSE IF lo = hi THEN
        (IF POSSIBLE_SWAPS[lo][1] \notin pinned /\ POSSIBLE_SWAPS[lo][2] \notin pinned
         THEN <<POSSIBLE_SWAPS[lo]>> ELSE <<>>)
    ELSE PinnedRange(pinned, lo, (lo + hi) \div 2)
            \o PinnedRange(pinned, ((lo + hi) \div 2) + 1, hi)

\* pinned_swaps that pushes every swap, whatever the pin map says.
pinned_swaps_unfiltered(pinned) == POSSIBLE_SWAPS

pinned_swaps(pinned) == PinnedRange(pinned, 1, Len(POSSIBLE_SWAPS))

(***************************************************************************)
(* The column pass and the optimizer's entry points.                       *)
(***************************************************************************)
\* The accept_swap calls and the k = 1 comparisons of col_perms(.., k), in
\* the order the recursion makes them, from the turn i of its for loop on:
\* None is a k = 1 comparison, Some(p) is accept_swap on the pair p.
RECURSIVE col_perms_steps(_, _)
col_perms_steps(k, i) ==
    IF k = 1 THEN <<None>>
    ELSE IF i >= k THEN <<>>
    ELSE col_perms_steps(k - 1, 0)
            \o <<Some(IF k % 2 = 0 THEN <<COLS[i], COLS[k - 1]>>
                                    ELSE <<COLS[0], COLS[k - 1]>>)>>
            \o col_perms_steps(k, i + 1)

\* col_perms(layout, best, cache, best_score, 6) as optimize_cols calls it.
ColPermsSteps == col_perms_steps(6, 0)

\* One step of col_perms on st = [layout, cache, best, best_score].
col_perms_step(st, ev) ==
    IF ev = None THEN
        IF total_score(st.cache) > st.best_score
        THEN [st EXCEPT !.best_score = total_score(st.cache), !.best = st.layout]
        ELSE st
    ELSE
        The({[st EXCEPT !.layout = r.layout, !.cache = r.cache] :
                r \in {accept_swap(st.layout, unwrap(ev), st.cache)}})

\* FastLayout::swap_indexes: the top and the bottom row exchanged.
swap_indexes(l) ==
    MakeLayout([i \in Positions |->
        IF i < 10 THEN l.matrix[i + 20]
        ELSE IF i >= 20 THEN l.matrix[i - 20]
        ELSE l.matrix[i]])

\* col_perms(.., 6) from its first step to its last: the steps lo..hi of
\* steps in order (the range is split in halves, the first half's result
\* bound before the second half starts).
RECURSIVE ColPermsRange(_, _, _, _)
ColPermsRange(st, steps, lo, hi) ==
    IF lo > hi THEN st
    ELSE IF lo = hi THEN col_perms_step(st, steps[lo])
    ELSE The({The({ColPermsRange(left, steps, mid + 1, hi) :
                        left \in {ColPermsRange(st, steps, lo, mid)}}) :
                mid \in {(lo + hi) \div 2}})

col_perms(st) ==
    The({ColPermsRange(st, steps, 1, Len(steps)) : steps \in {ColPermsSteps}})

\* optimize_cols(layout, cache, score), score being score_opt: the layout
\* and the cache it leaves behind and the best_score it returns.
optimize_cols(l, c, score_opt) ==
    The({[layout |-> second.best, cache |-> second.cache,
          best_score |-> second.best_score] :
            second \in
                {col_perms([first EXCEPT !.layout = swap_indexes(first.layout)]) :
                    first \in
                        {col_perms([layout |-> l, cache |-> c, best |-> l,
                                    best_score |-> IF score_opt = None THEN total_score(c)
                                                   ELSE unwrap(score_opt)])}}})

\* One turn of the `while let` loop of optimize_cached: best_swap_cached,
\* then accept_swap of the swap it found, or the return when it found none.
optimize_cached_turn(l, c, current_best, swaps) ==
    The({IF r.swap = None
         THEN [layout |-> r.layout, cache |-> c, current_best_score |-> current_best,
               returned |-> TRUE]
         ELSE The({[layout |-> a.layout, cache |-> a.cache,
                    current_best_score |-> r.score, returned |-> FALSE] :
                        a \in {accept_swap(r.layout, unwrap(r.swap), c)}}) :
            r \in {best_swap_cached(l, c, Some(current_best), swaps)}})

\* The uncached best-swap climb (optimize_normal_no_cols): in each turn the
\* earliest swap of maximum score() among the candidates is taken if its score
\* exceeds the current best, the score of the layout as it stands; the climb
\* ends on the layout no candidate improves.
RECURSIVE optimize_normal_no_cols(_, _)
optimize_normal_no_cols(l, swaps) ==
    The({The({IF better = {} THEN l
              ELSE optimize_normal_no_cols(
                    swap_pair_no_bounds(l,
                        swaps[CHOOSE k \in better :
                                /\ \A j \in better : value[j] <= value[k]
                                /\ \A j \in better : j < k => value[j] < value[k]]),
                    swaps) :
                better \in {{k \in 1 .. Len(swaps) : value[k] > score(l)}}}) :
         value \in {[k \in 1 .. Len(swaps) |-> score(swap_pair_no_bounds(l, swaps[k]))]}})

\* optimize_cached from a turn of its `while let` loop on, to its return: the
\* layout and the cache it leaves behind and the score it returns.
RECURSIVE optimize_cached_from(_, _, _, _)
optimize_cached_from(l, c, current_best, swaps) ==
    The({IF t.returned
         THEN [layout |-> t.layout, cache |-> t.cache, ret |-> t.current_best_score]
         ELSE optimize_cached_from(t.layout, t.cache, t.current_best_score, swaps) :
            t \in {optimize_cached_turn(l, c, current_best, swaps)}})

\* optimize_cached
optimize_cached(l, c, swaps) == optimize_cached_from(l, c, F64Min \div 2, swaps)

\* optimize from a test of its while loop on, to the layout it returns.
RECURSIVE optimize_while(_, _, _, _, _)
optimize_while(l, c, with_col, optimized, swaps) ==
    IF with_col < optimized THEN
        The({The({optimize_while(cols.layout, cols.cache, cols.best_score, oc.ret, swaps) :
                    cols \in {optimize_cols(oc.layout, oc.cache, Some(oc.ret))}}) :
                oc \in {optimize_cached(l, c, swaps)}})
    ELSE l

\* optimize
optimize(l, swaps) ==
    optimize_while(l, initialize_cache(l), F64Min, F64Min \div 2, swaps)

\* generate, on the layout FastLayout::random gave it: the optimized layout
\* and the score stored in it.
generate(random) ==
    The({[layout |-> l, score |-> score(l)] : l \in {optimize(random, POSSIBLE_SWAPS)}})

\* The cache a task's optimize call works on: the local `cache` of that call.
cache_slot_shared(t) == 1

cache_slot(t) == t

(***************************************************************************)
(* LayoutAnalysis: its score, and the registry of named layouts.           *)
(***************************************************************************)
\* usize::MAX as a trigram precision: above the length of every trigram list.
UsizeMax == 1000000

\* LayoutAnalysis::effort
analysis_effort(l) ==
    SumSeq([k \in 1 .. NumKeys |-> EffortBase[k] * Get(data.characters, l.matrix[k - 1])])

\* LayoutAnalysis::bigram_percent over self.sfb_indices
analysis_bigram_percent(l, table) ==
    SumSeq([k \in 1 .. Len(sfb_indices) |->
        The({Get(table, <<c1, c2>>) + Get(table, <<c2, c1>>) :
                c1 \in {l.matrix[sfb_indices[k][1]]},
                c2 \in {l.matrix[sfb_indices[k][2]]}})])

\* LayoutAnalysis::trigram_stats: the frequency of each pattern over the
\* first trigram_precision trigrams.
trigram_stats(l, precision) ==
    LET n == IF Len(data.trigrams) <= precision THEN Len(data.trigrams) ELSE precision
        freq(p) ==
            SumSeq([k \in 1 .. n |->
                IF get_trigram_pattern(l, data.trigrams[k][1]) = p
                THEN data.trigrams[k][2] ELSE 0])
    IN  [alternates |-> freq("Alternate"),
         alternates_sfs |-> freq("AlternateSfs"),
         inrolls |-> freq("Inroll"),
         outrolls |-> freq("Outroll"),
         onehands |-> freq("Onehand"),
         redirects |-> freq("Redirect"),
         bad_redirects |-> freq("BadRedirect")]

\* LayoutAnalysis::score under the weights w.
analysis_score(l, precision, w) ==
    The({0 - w.heatmap[1] * (analysis_effort(l) - w.heatmap[2])
           - w.sfb * analysis_bigram_percent(l, data.bigrams)
           - w.dsfb * analysis_bigram_percent(l, data.skipgrams)
           + w.inrolls * t.inrolls
           + w.outrolls * t.outrolls
           + w.onehands * t.onehands
           + w.alternates * t.alternates
           + w.alternates_sfs * t.alternates_sfs
           - w.redirects * t.redirects
           - w.bad_redirects * t.bad_redirects :
            t \in {trigram_stats(l, precision)}})

\* sort_by on the scores of the entries of s: a stable sort, by `a.score
\* cmp b.score` (ascending) or `b.score cmp a.score` (descending).
sort_by_score(s, descending) ==
    LET before(a, b) == IF descending THEN a.score > b.score ELSE a.score < b.score
        rank(i) ==
            Cardinality({j \in 1 .. Len(s) :
                \/ before(s[j], s[i])
                \/ (s[j].score = s[i].score /\ j < i)}) + 1
    IN  [k \in 1 .. Len(s) |-> s[CHOOSE i \in 1 .. Len(s) : rank(i) = k]]

\* IndexMap::insert: a present key keeps its place and takes the new value,
\* an absent key goes to the end.
insert(map, e) ==
    IF \E k \in 1 .. Len(map) : map[k].name = e.name
    THEN [k \in 1 .. Len(map) |-> IF map[k].name = e.name THEN e ELSE map[k]]
    ELSE Append(map, e)

\* IndexMap::contains_key
contains_key(map, name) == \E k \in 1 .. Len(map) : map[k].name = name

\* FastLayout::try_from / BasicLayout::try_from on a formatted layout string:
\* a layout when the string has 30 characters.
try_from(str) ==
    IF Len(str) = NumKeys THEN Some(MakeLayout([i \in Positions |-> str[i + 1]]))
    ELSE None

\* The layout's rendering without its white space: what format_layout_str
\* makes of the file that save writes.
layout_str(l) == [k \in 1 .. NumKeys |-> l.matrix[k - 1]]

\* LayoutGeneration::load_layouts, the loop over the directory from file k on.
RECURSIVE generation_load_from(_, _, _)
generation_load_from(fs, k, res) ==
    IF k > Len(fs) THEN res
    ELSE IF fs[k].ext # "kb" THEN generation_load_from(fs, k + 1, res)
    ELSE The({generation_load_from(fs, k + 1,
                    IF p = None THEN res
                    ELSE insert(res, [name |-> fs[k].name, layout |-> unwrap(p),
                                      score |-> score(unwrap(p))])) :
                p \in {try_from(fs[k].content)}})

\* LayoutGeneration::load_layouts: the names of the .kb files that try_from
\* refuses, in the order of the println! calls.
generation_reported(fs) ==
    [k \in 1 .. Len(SelectSeq(fs, LAMBDA f : f.ext = "kb" /\ try_from(f.content) = None)) |->
        SelectSeq(fs, LAMBDA f : f.ext = "kb" /\ try_from(f.content) = None)[k].name]

\* LayoutGeneration::load_layouts
generation_load_layouts(fs) == sort_by_score(generation_load_from(fs, 1, <<>>), FALSE)

\* LayoutAnalysis::load_layouts, the loop over the directory from file k on:
\* None when try_from(..).unwrap() panics.
RECURSIVE analysis_load_from(_, _, _, _)
analysis_load_from(fs, k, res, w) ==
    IF k > Len(fs) THEN Some(res)
    ELSE IF fs[k].ext # "kb" THEN analysis_load_from(fs, k + 1, res, w)
    ELSE The({IF p = None THEN None
              ELSE analysis_load_from(fs, k + 1,
                        insert(res, [name |-> fs[k].name, layout |-> unwrap(p),
                                     score |-> analysis_score(unwrap(p), UsizeMax, w)]), w) :
                p \in {try_from(fs[k].content)}})

\* LayoutAnalysis::load_layouts
analysis_load_layouts(fs, w) ==
    The({IF r = None THEN None ELSE Some(sort_by_score(unwrap(r), TRUE)) :
            r \in {analysis_load_from(fs, 1, <<>>, w)}})

\* Characters of names: the space, the underscore and the digits, by their
\* ASCII codes (the characters of layouts are the ids 1..30).
SpaceChar == 32

UnderscoreChar == 95

DigitZero == 48

\* format!("{}", i)
RECURSIVE Decimal(_)
Decimal(i) ==
    IF i < 10 THEN <<DigitZero + i>>
    ELSE Decimal(i \div 10) \o <<DigitZero + (i % 10)>>

\* n.replace(" ", "_")
replace_spaces(n) ==
    [k \in 1 .. Len(n) |-> IF n[k] = SpaceChar THEN UnderscoreChar ELSE n[k]]

\* LayoutAnalysis::placeholder_name: matrix[10..14] followed by the first i of
\* 1..1000 that makes a name the registry does not hold.
placeholder_name(map, l) ==
    LET home == <<l.matrix[10], l.matrix[11], l.matrix[12], l.matrix[13]>>
        free(i) == ~contains_key(map, home \o Decimal(i))
    IN  home \o Decimal(CHOOSE i \in 1 .. 999 : free(i) /\ \A j \in 1 .. (i - 1) : ~free(j))

\* The directory after save has written new_name.kb (created or truncated).
write_file(fs, new_name, content) ==
    IF \E k \in 1 .. Len(fs) : fs[k].name = new_name /\ fs[k].ext = "kb"
    THEN [k \in 1 .. Len(fs) |->
            IF fs[k].name = new_name /\ fs[k].ext = "kb"
            THEN [fs[k] EXCEPT !.content = content] ELSE fs[k]]
    ELSE Append(fs, [name |-> new_name, ext |-> "kb", content |-> content])

(***************************************************************************)
(* language_data.rs: the trigram table of a language file.                 *)
(***************************************************************************)
\* ConvertU8::to_single: the id of a character, a new id (the next one in
\* first-seen order) for a character the codec has not seen.
to_single(con, c) ==
    IF \E k \in 1 .. Len(con) : con[k] = c
    THEN [con |-> con, u |-> (CHOOSE k \in 1 .. Len(con) : con[k] = c) - 1]
    ELSE [con |-> Append(con, c), u |-> Len(con)]

\* ConvertU8::to: the ids of a string's characters, one after the other.
RECURSIVE to(_, _)
to(con, chars) ==
    IF chars = <<>> THEN [con |-> con, u |-> <<>>]
    ELSE The({The({[con |-> rest.con, u |-> <<first.u>> \o rest.u] :
                        rest \in {to(first.con, Tail(chars))}}) :
                first \in {to_single(con, Head(chars))}})

\* ConvertU8::from_single: the character of an id.
from_single(con, u) == con[u + 1]

\* get_trigram_data: `if tv_u8[0] != tv_u8[1] && tv_u8[1] != tv_u8[2]`, with
\* the variant that also refuses a trigram whose ends are equal.
keeps_trigram_distinct_ends(tv_u8) ==
    tv_u8[1] # tv_u8[2] /\ tv_u8[2] # tv_u8[3] /\ tv_u8[1] # tv_u8[3]

keeps_trigram(tv_u8) == tv_u8[1] # tv_u8[2] /\ tv_u8[2] # tv_u8[3]

\* get_trigram_data, the loop over the IndexMap from its entry k on.
RECURSIVE get_trigram_data_from(_, _, _, _)
get_trigram_data_from(entries, k, con, res) ==
    IF k > Len(entries) THEN [con |-> con, res |-> res]
    ELSE The({get_trigram_data_from(entries, k + 1, tv.con,
                    IF keeps_trigram(tv.u)
                    THEN Append(res, <<<<tv.u[1], tv.u[2], tv.u[3]>>, entries[k].freq>>)
                    ELSE res) :
                tv \in {to(con, entries[k].trigram)}})

\* get_trigram_data
get_trigram_data(entries, con) == get_trigram_data_from(entries, 1, con, <<>>)

(***************************************************************************)
(* Inputs: weights, language models, starting layouts.                     *)
(***************************************************************************)
\* The characters a layout is generated from (chars_for_generation).
Chars == 1 .. NumKeys

DefaultWeights ==
    [heatmap |-> 1, lateral_penalty |-> 2, fspeed |-> 2, scissors |-> 3,
     dsfb_ratio |-> 1, dsfb_ratio2 |-> 1, dsfb_ratio3 |-> 1,
     inrolls |-> 3, outrolls |-> 2, onehands |-> 1, alternates |-> 2,
     alternates_sfs |-> 1, redirects |-> 2, bad_redirects |-> 4,
     max_finger_use |-> [penalty |-> 2, pinky |-> 3, ring |-> 5, middle |-> 6, index |-> 8]]

\* A language of four characters; "bab" is a trigram whose first and third
\* characters are equal.
LangAbcd ==
    [characters |-> (1 :> 5) @@ (2 :> 4) @@ (3 :> 3) @@ (4 :> 2),
     bigrams |-> (<<1, 2>> :> 3) @@ (<<2, 3>> :> 2) @@ (<<3, 1>> :> 1),
     skipgrams |-> (<<1, 3>> :> 2),
     skipgrams2 |-> (<<2, 4>> :> 1),
     skipgrams3 |-> (<<4, 1>> :> 1),
     trigrams |-> << <<(<<1, 2, 3>>), 4>>, <<(<<2, 1, 2>>), 3>>, <<(<<3, 4, 1>>), 2>> >>]

\* A language with one heavy character and no n-grams but one trigram.
LangA ==
    [characters |-> (1 :> 9) @@ (5 :> 1),
     bigrams |-> (<<1, 5>> :> 2),
     skipgrams |-> (<<5, 1>> :> 1),
     skipgrams2 |-> (<<1, 5>> :> 1),
     skipgrams3 |-> (<<1, 5>> :> 1),
     trigrams |-> << <<(<<1, 5, 6>>), 2>> >>]

\* A language of ten characters: more characters than the home row's best
\* positions.
LangWide ==
    [characters |-> (1 :> 1) @@ (2 :> 4) @@ (3 :> 4) @@ (4 :> 1) @@ (5 :> 8)
                    @@ (6 :> 7) @@ (7 :> 7) @@ (8 :> 7) @@ (9 :> 2) @@ (10 :> 4),
     bigrams |-> (<<5, 6>> :> 1) @@ (<<7, 2>> :> 2) @@ (<<4, 2>> :> 1),
     skipgrams |-> (<<1, 8>> :> 2),
     skipgrams2 |-> <<>>,
     skipgrams3 |-> <<>>,
     trigrams |-> << <<(<<3, 9, 4>>), 4>>, <<(<<9, 4, 3>>), 4>>, <<(<<7, 2, 10>>), 4>> >>]

Languages == {LangAbcd, LangA}

\* trigram_precision as the tests pass it (1000: every trigram of the model's
\* languages) and a precision below the number of trigrams.
FullPrecision == 1000

Precisions == {1, FullPrecision}

\* The matrix with character k at position pos[k] and the remaining
\* characters filling the remaining positions in order.
PlaceChars(pos) ==
    LET n == Len(pos)
        taken == {pos[k] : k \in 1 .. n}
        free(i) == Cardinality({j \in 0 .. (i - 1) : j \notin taken})
    IN  [i \in Positions |->
            IF i \in taken THEN CHOOSE k \in 1 .. n : pos[k] = i
            ELSE n + 1 + free(i)]

StartMatrices ==
    {PlaceChars(<<0, 10, 12, 13>>), PlaceChars(<<3, 24, 10, 0, 13>>)}

\* The layouts the cache is initialized on: those of StartMatrices, and one
\* with the characters of a bigram on the scissor pair (0, 11).
CacheMatrices == StartMatrices \cup {PlaceChars(<<0, 11, 12, 13>>)}

\* The positions the driver's swaps touch: a same-column pair of a non-index
\* column (0, 10), a same-column pair of an index column (13, 24), positions
\* in scissor pairs (0, 24) and outside them (10, 13).
TouchPositions == {0, 10, 13, 24}

SwapInputs == pinned_swaps(Positions \ TouchPositions)

\* How many accept_swap calls the driver makes.
MaxSwaps == 2

\* A layout that no single swap of POSSIBLE_SWAPS improves under LangWide.
WideMatrix ==
    [i \in Positions |->
        <<15, 28, 9, 17, 11, 14, 12, 23, 21, 22,
          2, 10, 6, 8, 18, 16, 5, 7, 3, 1,
          13, 24, 30, 4, 25, 19, 26, 27, 20, 29>>[i + 1]]

\* What optimize is called with: a language, a precision, a starting matrix
\* and a candidate list.
HomeSwaps == pinned_swaps(Positions \ {10, 11, 12, 13})

OptimizeInputs ==
    {[data |-> LangWide, precision |-> FullPrecision, matrix |-> WideMatrix,
      swaps |-> POSSIBLE_SWAPS],
     [data |-> LangAbcd, precision |-> FullPrecision,
      matrix |-> PlaceChars(<<24, 2, 8, 3>>), swaps |-> <<>>],
     [data |-> LangAbcd, precision |-> 1,
      matrix |-> PlaceChars(<<0, 10, 12, 13>>), swaps |-> HomeSwaps],
     [data |-> LangAbcd, precision |-> FullPrecision,
      matrix |-> PlaceChars(<<0, 10, 12, 13>>), swaps |-> pinned_swaps(Positions \ {0, 13})],
     [data |-> LangAbcd, precision |-> FullPrecision,
      matrix |-> PlaceChars(<<13, 10, 12, 0>>), swaps |-> pinned_swaps(Positions \ {0, 13})]}

\* Sets of pinned positions: all but the left hand's non-index fingers and
\* inner index column, and all but five keys.
PinSets ==
    {Positions \ {0, 1, 2, 3, 10, 11, 12, 13, 20, 21, 22, 23},
     Positions \ {0, 10, 11, 12, 13}}

\* FastLayout::random_pins(based_on, pins): the characters of the unpinned
\* positions shuffled; the model rotates them by r places.
random_pins(matrix, pinned, r) ==
    LET freeSet == Positions \ pinned
        n == Cardinality(freeSet)
        rank(i) == Cardinality({j \in freeSet : j < i})
        at(k) == CHOOSE i \in freeSet : rank(i) = k
    IN  MakeLayout([i \in Positions |->
            IF i \in pinned THEN matrix[i] ELSE matrix[at((rank(i) + r) % n)]])

Rotations == {0, 1, 7}

\* What generate_pinned is called with, and what random_pins draws: a
\* language, a precision, a template, the pinned positions and a rotation;
\* two of the calls pin the four keys in the middle of the top row.
PinnedInputs ==
    [data : Languages, precision : Precisions, based_on : StartMatrices,
     pins : PinSets, r : Rotations]
    \cup {[data |-> LangAbcd, precision |-> FullPrecision,
           based_on |-> PlaceChars(<<3, 24, 10, 0, 13>>), pins |-> {3, 4, 5, 6}, r |-> 1],
          [data |-> LangA, precision |-> 1,
           based_on |-> PlaceChars(<<0, 10, 12, 13>>), pins |-> {3, 4, 5, 6}, r |-> 7]}

\* How many tasks generate_n is asked for.
NumTasks == 2

Tasks == 1 .. NumTasks

\* What FastLayout::random may return to a task: WideMatrix, and WideMatrix
\* with the keys at positions 0 and 10 exchanged.
SeedMatrices ==
    {WideMatrix, [WideMatrix EXCEPT ![0] = WideMatrix[10], ![10] = WideMatrix[0]]}

\* The weights of LayoutAnalysis.
AnalysisWeights ==
    [heatmap |-> <<1, 1>>, sfb |-> 15, dsfb |-> 2, inrolls |-> 3, outrolls |-> 2,
     onehands |-> 1, alternates |-> 2, alternates_sfs |-> 1, redirects |-> 2,
     bad_redirects |-> 4]

\* The types bigram_percent is asked for: one name of each table, and the
\* name get_layout_stats asks its dsfb by.
BigramTypes == {"sfbs", "dsfb2", "dsfb3", "skipgrams"}

\* The files of a layout directory: three layouts, a file that is too short
\* to be a layout, and a file that is no .kb file.
FileA == [name |-> <<97>>, ext |-> "kb", content |-> layout_str(MakeLayout(PlaceChars(<<0, 10, 12, 13>>)))]

FileB == [name |-> <<98>>, ext |-> "kb", content |-> layout_str(MakeLayout(PlaceChars(<<13, 16, 12, 17>>)))]

FileC == [name |-> <<99>>, ext |-> "kb", content |-> layout_str(MakeLayout(PlaceChars(<<3, 24, 10, 0>>)))]

FileShort == [name |-> <<100>>, ext |-> "kb", content |-> <<1, 2, 3>>]

FileTxt == [name |-> <<97>>, ext |-> "txt", content |-> <<>>]

\* What save is called with: a layout and a name, or no name.
SaveMatrices == {PlaceChars(<<13, 16, 12, 17>>), PlaceChars(<<10, 11, 12, 13>>)}

\* A layout file that already carries the first placeholder name of a layout
\* save is called with (the name a previous unnamed save gave it).
FilePlaceholder ==
    [name |-> placeholder_name(<<>>, MakeLayout(PlaceChars(<<13, 16, 12, 17>>))),
     ext |-> "kb", content |-> layout_str(MakeLayout(PlaceChars(<<3, 24, 10, 0>>)))]

\* The directory as read_dir lists it, in any order.
Directories ==
    {<<>>, <<FileA>>, <<FileA, FileB, FileTxt>>, <<FileB, FileA>>,
     <<FileC, FileTxt, FileB, FileA>>, <<FileA, FileC, FileB>>,
     <<FileB, FileShort, FileA>>, <<FilePlaceholder, FileA>>}

SaveNames == {None, Some(<<97>>), Some(<<110, SpaceChar, 119>>)}

\* How many save calls are made.
MaxSaves == 2

(***************************************************************************)
(* The specification of the cache under a driver that scores and accepts   *)
(* swaps (the shape of the tests accept_swaps and score_arbitrary_swaps).  *)
(***************************************************************************)
vars == <<genVars, layout, cache, drvVars, optVars, parVars, regVars, langVars>>

\* LayoutGeneration::new
New(d, precision) ==
    /\ data = d
    /\ weights = DefaultWeights
    /\ trigram_precision = precision
    /\ per_char_trigrams =
        build_per_char_trigrams(data.trigrams, DOMAIN data.characters, trigram_precision)
    /\ fspeed_vals = get_fspeed(weights.lateral_penalty)
    /\ effort_map = get_effort_map(weights.heatmap)

\* No optimizer call is running.
OptIdle ==
    /\ pc = "idle"
    /\ entry = "none"
    /\ possible_swaps = <<>>
    /\ based_on = <<>>
    /\ pins = {}
    /\ start_layout = layout
    /\ current_best_score = 0
    /\ optimized_score = 0
    /\ with_col_score = 0
    /\ best_score = 0
    /\ best = layout
    /\ pass = 0
    /\ step = 0

\* The driver has made no call.
DrvIdle ==
    /\ nswaps = 0
    /\ last = [op |-> "new", swap |-> None, ret |-> 0]

\* generate_n has not been called.
ParIdle ==
    /\ tasks = <<>>
    /\ caches = <<>>
    /\ collected = <<>>
    /\ temp_generated = None

\* No registry has been loaded.
RegIdle ==
    /\ files = <<>>
    /\ layouts = <<>>
    /\ owner = "none"
    /\ regpc = "idle"
    /\ nsaves = 0
    /\ saved = None
    /\ reported = <<>>

\* No language file is being loaded.
LangIdle ==
    /\ inter = [trigrams |-> <<>>]
    /\ convert_u8 = <<>>
    /\ loaded = None
    /\ langpc = "idle"

\* LayoutGeneration::new followed by initialize_cache on a parsed layout.
Init ==
    /\ \E d \in Languages, precision \in Precisions : New(d, precision)
    /\ \E m \in CacheMatrices : layout = MakeLayout(m)
    /\ cache = initialize_cache(layout)
    /\ DrvIdle
    /\ OptIdle
    /\ ParIdle
    /\ RegIdle
    /\ LangIdle

\* GEN.accept_swap(&mut layout, swap, &mut cache)
AcceptSwap(swap) ==
    /\ nswaps < MaxSwaps
    /\ \E r \in {accept_swap(layout, swap, cache)} :
        /\ layout' = r.layout
        /\ cache' = r.cache
    /\ nswaps' = nswaps + 1
    /\ last' = [op |-> "accept_swap", swap |-> Some(swap), ret |-> 0]
    /\ UNCHANGED <<genVars, langVars, parVars, regVars, optVars>>

\* GEN.score_swap_cached(&mut layout, swap, &cache)
ScoreSwapCached(swap) ==
    /\ \E r \in {score_swap_cached(layout, swap, cache)} :
        /\ layout' = r.layout
        /\ last' = [op |-> "score_swap_cached", swap |-> Some(swap), ret |-> r.ret]
    /\ UNCHANGED <<genVars, langVars, parVars, regVars, cache, nswaps, optVars>>

\* GEN.best_swap_cached(&mut layout, &cache, current_best_score, swaps)
BestSwapCached(cur, swaps) ==
    /\ \E r \in {best_swap_cached(layout, cache, cur, swaps)} :
        /\ layout' = r.layout
        /\ last' = [op |-> "best_swap_cached", swap |-> r.swap, ret |-> r.score,
                    cur |-> cur, swaps |-> swaps]
    /\ UNCHANGED <<genVars, langVars, parVars, regVars, cache, nswaps, optVars>>

\* LayoutGeneration::col_to_start_len(col), as the test test_col_fspeed calls
\* it: for each column in turn, on the generator as constructed.
ColToStartLen(col) ==
    /\ last.op \in {"new", "col_to_start_len"}
    /\ last' = [op |-> "col_to_start_len", swap |-> None, ret |-> col_to_start_len(col),
                col |-> col]
    /\ UNCHANGED <<genVars, langVars, parVars, regVars, layout, cache, nswaps, optVars>>

\* GEN.bigram_percent(&layout, bigram_type)
BigramPercent(bigram_type) ==
    /\ last' = [op |-> "bigram_percent", swap |-> None,
                ret |-> bigram_percent(layout, bigram_type), bigram_type |-> bigram_type]
    /\ UNCHANGED <<genVars, langVars, parVars, regVars, layout, cache, nswaps, optVars>>

Next ==
    \/ \E k \in 1 .. Len(SwapInputs) : AcceptSwap(SwapInputs[k])
    \/ \E bigram_type \in BigramTypes : BigramPercent(bigram_type)
    \/ \E col \in Columns : ColToStartLen(col)
    \/ \E k \in 1 .. Len(SwapInputs) : ScoreSwapCached(SwapInputs[k])
    \/ \E cur \in {None, Some(total_score(cache))} :
        \E swaps \in {SwapInputs, <<>>} : BestSwapCached(cur, swaps)

Spec == Init /\ [][Next]_vars

(***************************************************************************)
(* The specification of optimize and generate_pinned, one statement of     *)
(* their loops per step.                                                   *)
(***************************************************************************)
\* optimize(layout, possible_swaps) up to its while loop.
InitOptimize ==
    /\ \E in \in OptimizeInputs :
        /\ New(in.data, in.precision)
        /\ layout = MakeLayout(in.matrix)
        /\ possible_swaps = in.swaps
    /\ cache = initialize_cache(layout)
    /\ entry = "optimize"
    /\ based_on = <<>>
    /\ pins = {}
    /\ start_layout = layout
    /\ with_col_score = F64Min
    /\ optimized_score = F64Min \div 2
    /\ current_best_score = 0
    /\ pc = "while"

\* generate_pinned(based_on, pins, possible_swaps) up to the loop of
\* optimize_cached; generate_n_pins passes Some(pinned_swaps(pins)), which is
\* also what None stands for.
InitGeneratePinned ==
    /\ \E in \in PinnedInputs :
        /\ New(in.data, in.precision)
        /\ based_on = in.based_on
        /\ pins = in.pins
        /\ layout = random_pins(based_on, pins, in.r)
    /\ cache = initialize_cache(layout)
    /\ possible_swaps = pinned_swaps(pins)
    /\ entry = "generate_pinned"
    /\ start_layout = layout
    /\ with_col_score = 0
    /\ optimized_score = 0
    /\ current_best_score = F64Min \div 2
    /\ pc = "optimize_cached"

InitOpt ==
    /\ InitOptimize \/ InitGeneratePinned
    /\ best_score = 0
    /\ best = layout
    /\ pass = 0
    /\ step = 0
    /\ DrvIdle
    /\ ParIdle
    /\ RegIdle
    /\ LangIdle

\* optimize: the test of `while with_col_score < optimized_score`, and the
\* entry into optimize_cached or the return.
OptimizeWhile ==
    /\ pc = "while"
    /\ IF with_col_score < optimized_score
       THEN /\ pc' = "optimize_cached"
            /\ current_best_score' = F64Min \div 2
       ELSE /\ pc' = "done"
            /\ UNCHANGED current_best_score
    /\ UNCHANGED <<genVars, langVars, parVars, regVars, layout, cache, drvVars, entry, possible_swaps, based_on,
                   pins, start_layout, optimized_score, with_col_score, best_score, best,
                   pass, step>>

\* optimize_cached: one turn of its `while let` loop: best_swap_cached, then
\* either accept_swap or the return of current_best_score.
OptimizeCached ==
    /\ pc = "optimize_cached"
    /\ \E t \in {optimize_cached_turn(layout, cache, current_best_score, possible_swaps)} :
        /\ layout' = t.layout
        /\ cache' = t.cache
        /\ current_best_score' = t.current_best_score
        /\ IF ~t.returned THEN UNCHANGED <<pc, optimized_score>>
           ELSE IF entry = "optimize"
           THEN /\ optimized_score' = current_best_score
                /\ pc' = "optimize_cols"
           ELSE /\ pc' = "done"
                /\ UNCHANGED optimized_score
    /\ UNCHANGED <<genVars, langVars, parVars, regVars, drvVars, entry, possible_swaps, based_on, pins, start_layout,
                   with_col_score, best_score, best, pass, step>>

\* optimize_cols(layout, cache, Some(optimized_score)) up to its first
\* col_perms call.
OptimizeCols ==
    /\ pc = "optimize_cols"
    /\ best_score' = optimized_score
    /\ best' = layout
    /\ pass' = 1
    /\ step' = 1
    /\ pc' = "col_perms"
    /\ UNCHANGED <<genVars, langVars, parVars, regVars, layout, cache, drvVars, entry, possible_swaps, based_on,
                   pins, start_layout, current_best_score, optimized_score, with_col_score>>

\* col_perms: its next step.
ColPerms ==
    /\ pc = "col_perms"
    /\ step <= Len(ColPermsSteps)
    /\ \E st \in {col_perms_step(
                        [layout |-> layout, cache |-> cache, best |-> best,
                         best_score |-> best_score],
                        ColPermsSteps[step])} :
        /\ layout' = st.layout
        /\ cache' = st.cache
        /\ best' = st.best
        /\ best_score' = st.best_score
    /\ step' = step + 1
    /\ UNCHANGED <<genVars, langVars, parVars, regVars, drvVars, pc, entry, possible_swaps, based_on, pins, start_layout,
                   current_best_score, optimized_score, with_col_score, pass>>

\* optimize_cols: layout.swap_indexes() between the two col_perms calls.
SwapIndexes ==
    /\ pc = "col_perms"
    /\ step > Len(ColPermsSteps)
    /\ pass = 1
    /\ layout' = swap_indexes(layout)
    /\ pass' = 2
    /\ step' = 1
    /\ UNCHANGED <<genVars, langVars, parVars, regVars, cache, drvVars, pc, entry, possible_swaps, based_on, pins,
                   start_layout, current_best_score, optimized_score, with_col_score,
                   best_score, best>>

\* optimize_cols: `*layout = best` and the return of best_score to optimize.
OptimizeColsReturn ==
    /\ pc = "col_perms"
    /\ step > Len(ColPermsSteps)
    /\ pass = 2
    /\ layout' = best
    /\ with_col_score' = best_score
    /\ pc' = "while"
    /\ UNCHANGED <<genVars, langVars, parVars, regVars, cache, drvVars, entry, possible_swaps, based_on, pins,
                   start_layout, current_best_score, optimized_score, best_score, best,
                   pass, step>>

NextOpt ==
    \/ OptimizeWhile
    \/ OptimizeCached
    \/ OptimizeCols
    \/ ColPerms
    \/ SwapIndexes
    \/ OptimizeColsReturn

SpecOpt == InitOpt /\ [][NextOpt]_vars

(***************************************************************************)
(* The same calls with optimize_cols as one step.                          *)
(***************************************************************************)
\* optimize: `with_col_score = self.optimize_cols(.., Some(optimized_score))`.
OptimizeColsCall ==
    /\ pc = "optimize_cols"
    /\ \E r \in {optimize_cols(layout, cache, Some(optimized_score))} :
        /\ layout' = r.layout
        /\ cache' = r.cache
        /\ best' = r.layout
        /\ best_score' = r.best_score
        /\ with_col_score' = r.best_score
    /\ pass' = 2
    /\ step' = Len(ColPermsSteps) + 1
    /\ pc' = "while"
    /\ UNCHANGED <<genVars, langVars, parVars, regVars, drvVars, entry, possible_swaps, based_on, pins,
                   start_layout, current_best_score, optimized_score>>

NextCall ==
    \/ OptimizeWhile
    \/ OptimizeCached
    \/ OptimizeColsCall

SpecCall == InitOpt /\ [][NextCall]_vars

\* The call runs to its end: a thread that can take a step takes it.
FairSpecCall == SpecCall /\ WF_vars(NextCall)

(***************************************************************************)
(* generate_n: the tasks of the parallel iterator, one statement of        *)
(* generate / optimize per step, in any interleaving.                      *)
(***************************************************************************)
InitPar ==
    /\ New(LangWide, FullPrecision)
    /\ layout = MakeLayout(WideMatrix)
    /\ cache = initialize_cache(layout)
    /\ DrvIdle
    /\ OptIdle
    /\ RegIdle
    /\ LangIdle
    /\ tasks = [t \in Tasks |->
                    [pc |-> "generate", start |-> None, layout |-> None,
                     current_best_score |-> 0, optimized_score |-> 0,
                     with_col_score |-> 0]]
    /\ caches = [t \in Tasks |-> None]
    /\ collected = [t \in Tasks |-> None]
    /\ temp_generated = None

\* generate: FastLayout::random, and optimize up to its while loop.
TaskGenerate(t) ==
    /\ tasks[t].pc = "generate"
    /\ \E m \in SeedMatrices :
        \E l \in {MakeLayout(m)} :
            /\ tasks' = [tasks EXCEPT ![t] =
                    [pc |-> "while", start |-> Some(l), layout |-> l,
                     current_best_score |-> 0, optimized_score |-> F64Min \div 2,
                     with_col_score |-> F64Min]]
            /\ caches' = [caches EXCEPT ![cache_slot(t)] = initialize_cache(l)]
    /\ UNCHANGED <<genVars, langVars, layout, cache, drvVars, optVars, regVars, collected,
                   temp_generated>>

\* optimize: the test of its while loop.
TaskWhile(t) ==
    /\ tasks[t].pc = "while"
    /\ tasks' = [tasks EXCEPT ![t] =
            IF tasks[t].with_col_score < tasks[t].optimized_score
            THEN [tasks[t] EXCEPT !.pc = "optimize_cached",
                                  !.current_best_score = F64Min \div 2]
            ELSE [tasks[t] EXCEPT !.pc = "return"]]
    /\ UNCHANGED <<genVars, langVars, layout, cache, drvVars, optVars, regVars, caches, collected,
                   temp_generated>>

\* optimize_cached: one turn of its loop.
TaskOptimizeCached(t) ==
    /\ tasks[t].pc = "optimize_cached"
    /\ \E r \in {optimize_cached_turn(tasks[t].layout, caches[cache_slot(t)],
                                      tasks[t].current_best_score, POSSIBLE_SWAPS)} :
        /\ tasks' = [tasks EXCEPT ![t] =
                IF r.returned
                THEN [tasks[t] EXCEPT !.layout = r.layout,
                                      !.optimized_score = r.current_best_score,
                                      !.pc = "optimize_cols"]
                ELSE [tasks[t] EXCEPT !.layout = r.layout,
                                      !.current_best_score = r.current_best_score]]
        /\ caches' = [caches EXCEPT ![cache_slot(t)] = r.cache]
    /\ UNCHANGED <<genVars, langVars, layout, cache, drvVars, optVars, regVars, collected,
                   temp_generated>>

\* optimize: the call of optimize_cols.
TaskOptimizeCols(t) ==
    /\ tasks[t].pc = "optimize_cols"
    /\ \E r \in {optimize_cols(tasks[t].layout, caches[cache_slot(t)],
                               Some(tasks[t].optimized_score))} :
        /\ tasks' = [tasks EXCEPT ![t] =
                [tasks[t] EXCEPT !.layout = r.layout, !.with_col_score = r.best_score,
                                 !.pc = "while"]]
        /\ caches' = [caches EXCEPT ![cache_slot(t)] = r.cache]
    /\ UNCHANGED <<genVars, langVars, layout, cache, drvVars, optVars, regVars, collected,
                   temp_generated>>

\* The end of the task: generate stores the layout's score, the closure adds
\* the analysis' score, and the pair takes the task's place in `layouts`.
TaskReturn(t) ==
    /\ tasks[t].pc = "return"
    /\ tasks' = [tasks EXCEPT ![t] = [tasks[t] EXCEPT !.pc = "done"]]
    /\ collected' = [collected EXCEPT ![t] =
            Some([layout |-> tasks[t].layout,
                  layout_score |-> score(tasks[t].layout),
                  score |-> analysis_score(tasks[t].layout, UsizeMax, AnalysisWeights)])]
    /\ UNCHANGED <<genVars, langVars, layout, cache, drvVars, optVars, regVars, caches,
                   temp_generated>>

\* generate_n after the parallel phase: the sort by score, highest first, and
\* the rendered list published in temp_generated.
Publish ==
    /\ \A t \in Tasks : tasks[t].pc = "done"
    /\ temp_generated = None
    /\ temp_generated' =
        Some(The({[k \in 1 .. Len(sorted) |-> layout_str(sorted[k].layout)] :
                    sorted \in {sort_by_score([t \in Tasks |-> unwrap(collected[t])],
                                              TRUE)}}))
    /\ UNCHANGED <<genVars, langVars, layout, cache, drvVars, optVars, regVars, tasks, caches,
                   collected>>

NextPar ==
    \/ \E t \in Tasks : TaskGenerate(t)
    \/ \E t \in Tasks : TaskWhile(t)
    \/ \E t \in Tasks : TaskOptimizeCached(t)
    \/ \E t \in Tasks : TaskOptimizeCols(t)
    \/ \E t \in Tasks : TaskReturn(t)
    \/ Publish

SpecPar == InitPar /\ [][NextPar]_vars

(***************************************************************************)
(* The loader of a language file's trigrams.                               *)
(***************************************************************************)
\* The trigrams a language file may list ("aba", "aab", "abb", "abc", "cab",
\* by the ASCII codes of their characters), each with its frequency.
TrigramPool ==
    {[trigram |-> <<97, 98, 97>>, freq |-> 5], [trigram |-> <<97, 97, 98>>, freq |-> 4],
     [trigram |-> <<97, 98, 98>>, freq |-> 3], [trigram |-> <<97, 98, 99>>, freq |-> 2],
     [trigram |-> <<99, 97, 98>>, freq |-> 5]}

\* How many trigrams a language file lists.
MaxTrigrams == 3

\* The IndexMap of a language file: its keys are distinct.
TrigramMaps ==
    {m \in UNION {[1 .. n -> TrigramPool] : n \in 0 .. MaxTrigrams} :
        \A j, k \in 1 .. Len(m) : j # k => m[j] # m[k]}

\* The codec after the character and bigram tables went through it.
Codecs == {<<>>, <<97, 98>>, <<98, 99, 97>>}

InitLang ==
    /\ New(LangAbcd, FullPrecision)
    /\ layout = MakeLayout(PlaceChars(<<0, 10, 12, 13>>))
    /\ cache = initialize_cache(layout)
    /\ DrvIdle
    /\ OptIdle
    /\ ParIdle
    /\ RegIdle
    /\ \E m \in TrigramMaps : inter = [trigrams |-> m]
    /\ convert_u8 \in Codecs
    /\ loaded = None
    /\ langpc = "from"

\* LanguageData::from: let trigrams = get_trigram_data(inter.trigrams, &mut convert_u8)
GetTrigramData ==
    /\ langpc = "from"
    /\ \E r \in {get_trigram_data(inter.trigrams, convert_u8)} :
        /\ loaded' = Some(r.res)
        /\ convert_u8' = r.con
    /\ langpc' = "done"
    /\ UNCHANGED <<genVars, layout, cache, drvVars, optVars, parVars, regVars, inter>>

NextLang == GetTrigramData

SpecLang == InitLang /\ [][NextLang]_vars

(***************************************************************************)
(* The registry: load_layouts of either owner, then save.                  *)
(***************************************************************************)
InitReg ==
    /\ New(LangAbcd, FullPrecision)
    /\ layout = MakeLayout(PlaceChars(<<0, 10, 12, 13>>))
    /\ cache = initialize_cache(layout)
    /\ DrvIdle
    /\ OptIdle
    /\ ParIdle
    /\ LangIdle
    /\ files \in Directories
    /\ owner \in {"LayoutGeneration", "LayoutAnalysis"}
    /\ layouts = <<>>
    /\ regpc = "new"
    /\ nsaves = 0
    /\ saved = None
    /\ reported = <<>>

\* LayoutGeneration::load_layouts
GenerationLoadLayouts ==
    /\ regpc = "new"
    /\ owner = "LayoutGeneration"
    /\ layouts' = generation_load_layouts(files)
    /\ reported' = generation_reported(files)
    /\ regpc' = "loaded"
    /\ UNCHANGED <<genVars, langVars, layout, cache, drvVars, optVars, parVars, files, owner,
                   nsaves, saved>>

\* LayoutAnalysis::new: self.layouts = self.load_layouts().unwrap(); a file
\* that does not parse panics.
AnalysisLoadLayouts ==
    /\ regpc = "new"
    /\ owner = "LayoutAnalysis"
    /\ \E r \in {analysis_load_layouts(files, AnalysisWeights)} :
        IF r = None
        THEN regpc' = "panicked" /\ UNCHANGED layouts
        ELSE regpc' = "loaded" /\ layouts' = unwrap(r)
    /\ UNCHANGED <<genVars, langVars, layout, cache, drvVars, optVars, parVars, files, owner,
                   nsaves, saved, reported>>

\* LayoutAnalysis::save(layout, name)
Save(m, name) ==
    /\ regpc = "loaded"
    /\ owner = "LayoutAnalysis"
    /\ nsaves < MaxSaves
    /\ \E l \in {MakeLayout(m)} :
        \E new_name \in {IF name # None THEN replace_spaces(unwrap(name))
                         ELSE placeholder_name(layouts, l)} :
            /\ files' = write_file(files, new_name, layout_str(l))
            /\ layouts' =
                sort_by_score(
                    insert(layouts,
                           [name |-> new_name, layout |-> l,
                            score |-> analysis_score(l, UsizeMax, AnalysisWeights)]),
                    TRUE)
            /\ saved' = Some([name |-> name, new_name |-> new_name, layout |-> l,
                              layouts |-> layouts, files |-> files])
    /\ nsaves' = nsaves + 1
    /\ UNCHANGED <<genVars, langVars, layout, cache, drvVars, optVars, parVars, owner, regpc,
                   reported>>

NextReg ==
    \/ GenerationLoadLayouts
    \/ AnalysisLoadLayouts
    \/ \E m \in SaveMatrices, name \in SaveNames : Save(m, name)

SpecReg == InitReg /\ [][NextReg]_vars

(***************************************************************************)
(* Properties of the cache (Spec).                                         *)
(***************************************************************************)
\* C1: after every accept_swap of the driver, whatever the language and the
\* trigram_precision the generator was constructed with, the cache's
\* total_score() equals score(layout) computed from scratch.
CacheConsistency == total_score(cache) = score(layout)

\* The same with every trigram inside trigram_precision.
CacheConsistencyFullPrecision ==
    trigram_precision >= Len(data.trigrams) => total_score(cache) = score(layout)

\* A swap has been accepted under a precision that cuts the trigram list.
C1Witness ==
    /\ last.op = "accept_swap"
    /\ trigram_precision < Len(data.trigrams)

\* C14: in the cache that initialize_cache returns and after every
\* accept_swap, effort_total is the sum of effort[0..30], usage_total the sum
\* of usage[0..8] and fspeed_total the sum of fspeed[0..8].
PerAspectSums ==
    /\ cache.effort_total = SumRange(cache.effort, 0, NumKeys - 1)
    /\ cache.usage_total = SumRange(cache.usage, 0, NumCols - 1)
    /\ cache.fspeed_total = SumRange(cache.fspeed, 0, NumCols - 1)

\* Two swaps have been accepted and the cache's effort and finger-speed
\* entries are no longer those of the starting layout.
C14Witness ==
    /\ last.op = "accept_swap"
    /\ nswaps >= 2
    /\ cache.effort # initialize_cache(start_layout).effort
    /\ cache.fspeed # initialize_cache(start_layout).fspeed

\* The reference table of test_col_fspeed.
ReferenceRanges ==
    <<<<0, 3>>, <<3, 3>>, <<6, 3>>, <<18, 15>>, <<33, 15>>, <<9, 3>>, <<12, 3>>, <<15, 3>>>>

\* The indices of the finger-speed table that col_fspeed visits for a column.
Visited(col) == {fspeed_range(col)[k] : k \in 1 .. Len(fspeed_range(col))}

\* C15: col_to_start_len maps the columns 0..7 to the reference table, and
\* the ranges col_fspeed walks for the eight columns visit each of the 48
\* entries of the finger-speed table exactly once.
ColumnRangeTable ==
    /\ last.op = "col_to_start_len" => last.ret = ReferenceRanges[last.col + 1]
    /\ \A col \in Columns : col_to_start_len(col) = ReferenceRanges[col + 1]
    /\ DOMAIN fspeed_vals = 0 .. 47
    /\ \A col \in Columns : Cardinality(Visited(col)) = Len(fspeed_range(col))
    /\ \A c1, c2 \in Columns : c1 # c2 => Visited(c1) \cap Visited(c2) = {}
    /\ UNION {Visited(col) : col \in Columns} = DOMAIN fspeed_vals

\* col_to_start_len has returned the range of an index column.
C15Witness == last.op = "col_to_start_len" /\ last.col = 4 /\ last.ret[2] = 15

\* The sum of table[c1, c2] + table[c2, c1] over the 48 same-finger position
\* pairs of the layout.
SameFingerSum(l, table) ==
    SumSeq([k \in 1 .. 48 |->
        Get(table, <<l.matrix[sfb_indices[k][1]], l.matrix[sfb_indices[k][2]]>>)
        + Get(table, <<l.matrix[sfb_indices[k][2]], l.matrix[sfb_indices[k][1]]>>)])

\* C16: bigram_percent sums over the table its type names: the bigrams for
\* the sfb and bigram names, skipgrams2 for the dsfb2 and skipgram2 names,
\* skipgrams3 for the dsfb3 and skipgram3 names.
BigramPercentSelectsTable ==
    last.op = "bigram_percent"
    => /\ last.bigram_type \in BigramNames
            => last.ret = Some(SameFingerSum(layout, data.bigrams))
       /\ last.bigram_type \in Skipgram2Names
            => last.ret = Some(SameFingerSum(layout, data.skipgrams2))
       /\ last.bigram_type \in Skipgram3Names
            => last.ret = Some(SameFingerSum(layout, data.skipgrams3))

\* What bigram_percent does: the skipgrams table under every name it knows.
BigramPercentSumsSkipgrams ==
    (last.op = "bigram_percent"
        /\ last.bigram_type \in BigramNames \cup Skipgram2Names \cup Skipgram3Names)
    => last.ret = Some(SameFingerSum(layout, data.skipgrams))

\* bigram_percent has returned the "sfbs" of a layout with same-finger bigrams.
C16Witness ==
    /\ last.op = "bigram_percent"
    /\ last.bigram_type = "sfbs"
    /\ SameFingerSum(layout, data.bigrams) > 0

\* C2: on a layout whose cache is consistent, the value score_swap_cached
\* returns for a swap equals the cache's total_score() after accept_swap of
\* that swap and equals score() of the layout with the swap applied.
ScoreSwapAgreement ==
    [][(/\ last'.op = "score_swap_cached"
        /\ total_score(cache) = score(layout))
       => /\ last'.ret = total_score(accept_swap(layout, unwrap(last'.swap), cache).cache)
          /\ last'.ret = score(swap_pair_no_bounds(layout, unwrap(last'.swap)))]_vars

\* The first half of C2 alone: score_swap_cached agrees with accept_swap.
ScoreSwapAgreesWithAccept ==
    [][last'.op = "score_swap_cached"
       => last'.ret = total_score(accept_swap(layout, unwrap(last'.swap), cache).cache)]_vars

\* score_swap_cached has returned on a layout whose cache is consistent.
C2Witness ==
    /\ last.op = "score_swap_cached"
    /\ total_score(cache) = score(layout)

\* C3: score_swap_cached and best_swap_cached leave the layout (matrix and
\* reverse index) and every field of the cache as they were on entry.
NonCommitting ==
    [][last'.op \in {"score_swap_cached", "best_swap_cached"}
       => (layout' = layout /\ cache' = cache)]_vars

\* best_swap_cached has evaluated its candidates, after an accept_swap, and
\* returned one of them.
C3Witness ==
    /\ last.op = "best_swap_cached"
    /\ last.swap # None
    /\ nswaps > 0

(***************************************************************************)
(* Properties of optimize and generate_pinned.                              *)
(***************************************************************************)
\* C4: the layout optimize returns scores (score()) at least as high as the
\* layout it was given.
MonotoneOptimize ==
    (pc = "done" /\ entry = "optimize") => score(layout) >= score(start_layout)

\* optimize has returned.
C4Witness == pc = "done" /\ entry = "optimize"

\* C5: optimize_cached and optimize return, whatever the starting layout and
\* the candidate list (the empty list included).
Termination == <>(pc = "done")

\* optimize_cached has accepted swaps and returned.
C5Witness == pc = "done" /\ current_best_score > F64Min \div 2

\* C17: every swap optimize_cached accepts, the first of a climb included,
\* scores strictly above the layout as it stands before the swap, so that
\* total_score() rises at every accepted step; when no candidate improves on
\* the current layout the climb ends without a swap.
OnlyImprovingSwaps ==
    [][pc = "optimize_cached"
       => /\ layout' # layout => total_score(cache') > total_score(cache)
          /\ (\A k \in 1 .. Len(possible_swaps) :
                score_swap_cached(layout, possible_swaps[k], cache).ret
                    <= total_score(cache))
             => layout' = layout]_vars

\* The same from the second turn of a climb on: against current_best_score,
\* the score of the swap accepted in the turn before.
OnlyImprovingSwapsAfterFirst ==
    [][(pc = "optimize_cached" /\ current_best_score > F64Min \div 2)
       => /\ layout' # layout => total_score(cache') > total_score(cache)
          /\ (\A k \in 1 .. Len(possible_swaps) :
                score_swap_cached(layout, possible_swaps[k], cache).ret
                    <= total_score(cache))
             => layout' = layout]_vars

\* A climb is under way: it has accepted a swap.
C17Witness ==
    /\ pc = "optimize_cached"
    /\ current_best_score > F64Min \div 2
    /\ layout # start_layout

\* C18: in optimize_cols every total_score compared, in the first pass and in
\* the second, is the true score (score()) of the layout being visited, the
\* best layout kept is the highest-scoring of those visited so far and
\* best_score is its true score, and on return the layout left in place is
\* that best layout and the score returned is its true score.
ColumnPassResult ==
    [][/\ (pc = "col_perms" /\ step <= Len(ColPermsSteps) /\ ColPermsSteps[step] = None)
            => /\ total_score(cache) = score(layout)
               /\ best_score' = score(best')
               /\ best_score' >= score(layout)
               /\ best_score' >= best_score
       /\ (pc = "col_perms" /\ pc' = "while")
            => /\ layout' = best
               /\ with_col_score' = score(layout')]_vars

\* The same for the first pass alone, under a trigram precision that covers
\* every trigram.
ColumnPassFirstPass ==
    [][(/\ pc = "col_perms" /\ pass = 1 /\ trigram_precision >= Len(data.trigrams)
        /\ step <= Len(ColPermsSteps) /\ ColPermsSteps[step] = None)
       => /\ total_score(cache) = score(layout)
          /\ best_score' = score(best')
          /\ best_score' >= score(layout)
          /\ best_score' >= best_score]_vars

\* The second pass is under way, under a trigram precision that covers every
\* trigram: the layout had its rows exchanged and columns permuted since.
C18Witness ==
    /\ pc = "col_perms"
    /\ pass = 2
    /\ step > 2
    /\ trigram_precision >= Len(data.trigrams)

\* The keys on the top row of the six columns of COLS, column by column.
TopRow(l) == [k \in 1 .. 6 |-> l.matrix[COLS[k - 1]]]

\* The orderings compared by the steps lo..hi of col_perms(.., 6) from the
\* layout l on, and the layout after them (the range is split in halves).
RECURSIVE VisitedRange(_, _, _)
VisitedRange(l, lo, hi) ==
    IF lo > hi THEN [layout |-> l, seen |-> {}]
    ELSE IF lo = hi THEN
        (IF ColPermsSteps[lo] = None THEN [layout |-> l, seen |-> {TopRow(l)}]
         ELSE [layout |-> swap_pair_no_bounds(l, unwrap(ColPermsSteps[lo])), seen |-> {}])
    ELSE The({The({[layout |-> right.layout, seen |-> left.seen \cup right.seen] :
                        right \in {VisitedRange(left.layout, ((lo + hi) \div 2) + 1, hi)}}) :
                left \in {VisitedRange(l, lo, (lo + hi) \div 2)}})

\* A pass of col_perms makes 720 comparisons, on 720 different orderings of
\* the six columns' top-row keys.
EnumeratesAllOrderings ==
    [][(pc = "col_perms" /\ step = 1)
       => /\ Cardinality({k \in 1 .. Len(ColPermsSteps) : ColPermsSteps[k] = None}) = 720
          /\ Cardinality(VisitedRange(layout, 1, Len(ColPermsSteps)).seen) = 720]_vars

\* A step of col_perms that is an accept_swap exchanges the keys of two
\* columns of COLS in all three rows.
ExchangesWholeColumns ==
    [][(pc = "col_perms" /\ step <= Len(ColPermsSteps) /\ ColPermsSteps[step] # None)
       => \E c1, c2 \in {COLS[k] : k \in 0 .. 5} :
            /\ c1 # c2
            /\ \A row \in 0 .. 2 :
                /\ layout'.matrix[c1 + (10 * row)] = layout.matrix[c2 + (10 * row)]
                /\ layout'.matrix[c2 + (10 * row)] = layout.matrix[c1 + (10 * row)]]_vars

\* C19: the column pass enumerates all 6! = 720 orderings of the six
\* non-index columns by Heap's algorithm, and each of its steps exchanges two
\* whole columns: the keys in all three rows change places.
ColumnPermutationSteps == EnumeratesAllOrderings /\ ExchangesWholeColumns

\* A step of col_perms that is an accept_swap exchanges the two top-row keys
\* of its PosPair and no other key.
ExchangesTopRowKeys ==
    [][(pc = "col_perms" /\ step <= Len(ColPermsSteps) /\ ColPermsSteps[step] # None)
       => layout' = swap_pair_no_bounds(layout, unwrap(ColPermsSteps[step]))]_vars

\* The column pass has made swaps: it is past its first comparisons.
C19Witness ==
    /\ pc = "col_perms"
    /\ pass = 1
    /\ step > 3
    /\ layout # best

\* The entries of the trigram list that contain the character c, in the list's order.
TrigramsContaining(trigrams, c) ==
    SelectSeq(trigrams, LAMBDA e : \E k \in 1 .. 3 : e[1][k] = c)

\* C20: the per-character trigram table has an entry for every character of
\* the language, and the entry for c is the sub-sequence of all trigrams of
\* the language model that contain c, whatever the trigram precision: the
\* table is built from the list initialize_cache and score() sum over.
PerCharTrigramTable ==
    /\ DOMAIN per_char_trigrams = DOMAIN data.characters
    /\ \A c \in DOMAIN data.characters :
        per_char_trigrams[c] = TrigramsContaining(data.trigrams, c)
    /\ initialize_cache(layout).trigrams_total = trigram_score_iter(layout, data.trigrams)

\* The entry for c is the sub-sequence of the first trigram_precision
\* trigrams that contain c.
PerCharTrigramTableTruncated ==
    /\ DOMAIN per_char_trigrams = DOMAIN data.characters
    /\ \A c \in DOMAIN data.characters :
        per_char_trigrams[c] = TrigramsContaining(Truncate(data.trigrams, trigram_precision), c)
    /\ initialize_cache(layout).trigrams_total = trigram_score_iter(layout, data.trigrams)

\* A table built with a precision below the number of trigrams, for a
\* language with a character in a trigram past the precision, in use by a swap.
C20Witness ==
    /\ trigram_precision < Len(data.trigrams)
    /\ \E c \in DOMAIN data.characters :
        \E k \in (trigram_precision + 1) .. Len(data.trigrams) :
            \E j \in 1 .. 3 : data.trigrams[k][1][j] = c
    /\ last.op = "accept_swap"

\* The positions of the characters that occur in the language's trigrams or
\* have an entry in the per-character table, and the positions the swaps touch.
TrigramPositions(l) ==
    TouchPositions
    \cup {l.reverse_index[c] : c \in DOMAIN per_char_trigrams}
    \cup {l.reverse_index[data.trigrams[k][1][j]] : k \in 1 .. Len(data.trigrams), j \in 1 .. 3}

\* The trigram reward of the layout over the trigrams of the table's list
\* that contain a or b, each taken once; a character without an entry in the
\* table has no trigrams.
RestrictedReward(l, a, b) ==
    The({trigram_score_iter(l,
            SelectSeq(n_trigrams, LAMBDA e :
                \E c \in {a, b} \cap DOMAIN per_char_trigrams :
                    \E j \in 1 .. 3 : e[1][j] = c)) :
         n_trigrams \in {Truncate(data.trigrams, trigram_precision)}})

ScissorPositions ==
    {scissor_indices[k][j] : k \in 1 .. Len(scissor_indices), j \in 1 .. 2}

\* C22: an accept_swap whose swap touches no position listed in the scissor
\* pairs leaves cache.scissors untouched, and after every accept_swap,
\* touching or not, cache.scissors is scissor_score(layout) computed from
\* scratch.
ScissorCache ==
    [][last'.op = "accept_swap"
       => /\ cache'.scissors = scissor_score(layout')
          /\ ({unwrap(last'.swap)[1], unwrap(last'.swap)[2]} \cap ScissorPositions = {}
                => cache'.scissors = cache.scissors)]_vars

\* An accept_swap on a scissor position has changed the scissor score, and
\* one on other positions has followed it.
C22Witness ==
    /\ last.op = "accept_swap"
    /\ nswaps >= 2
    /\ {unwrap(last.swap)[1], unwrap(last.swap)[2]} \cap ScissorPositions = {}
    /\ cache.scissors # initialize_cache(start_layout).scissors

\* What best_swap_cached is to return on layout l and cache c for the bound
\* and the candidates: the earliest candidate of maximum score among those
\* scoring above the bound, with its score, or no swap and the bound.
IsSelection(l, c, bound, swaps, swap, ret) ==
    \E value \in {[k \in 1 .. Len(swaps) |-> score_swap_cached(l, swaps[k], c).ret]} :
        \E better \in {{k \in 1 .. Len(swaps) : value[k] > bound}} :
            IF better = {}
            THEN swap = None /\ ret = bound
            ELSE \E k \in better :
                    /\ \A j \in better : value[j] <= value[k]
                    /\ \A j \in better : j < k => value[j] < value[k]
                    /\ swap = Some(swaps[k])
                    /\ ret = value[k]

\* C23: best_swap_cached returns the candidate of maximum score_swap_cached
\* value among those strictly above current_best_score, the earliest in list
\* order of those that tie for the maximum, together with that score; it
\* returns no swap and current_best_score exactly when no candidate's score
\* strictly exceeds current_best_score.
BestSwapSelection ==
    [][last'.op = "best_swap_cached"
       => IsSelection(layout, cache,
                      IF last'.cur = None THEN F64Min \div 2 ELSE unwrap(last'.cur),
                      last'.swaps, last'.swap, last'.ret)]_vars

\* best_swap_cached has returned the earlier of two candidates that tie for
\* the maximum, above current_best_score.
C23Witness ==
    /\ last.op = "best_swap_cached"
    /\ last.cur # None
    /\ last.swap # None
    /\ \E k, j \in 1 .. Len(last.swaps) :
        /\ k < j
        /\ last.swap = Some(last.swaps[k])
        /\ score_swap_cached(layout, last.swaps[j], cache).ret = last.ret
        /\ last.ret > unwrap(last.cur)

\* best_swap_cached has returned no swap for a non-empty candidate list.
C23WitnessNone ==
    /\ last.op = "best_swap_cached"
    /\ last.swap = None
    /\ last.swaps # <<>>

\* The climb that is returning is the first of its call: it started from
\* start_layout with the cache initialize_cache gave.
FirstClimb == entry = "generate_pinned" \/ with_col_score = F64Min

\* C24: the value optimize_cached returns is the score of the layout it
\* leaves behind, cache.total_score() on return and the full score of that
\* layout, and it is the score an uncached best-swap climb from the same
\* start reaches.
ReturnedClimbScore ==
    [][(pc = "optimize_cached" /\ pc' # "optimize_cached")
       => /\ current_best_score' = total_score(cache')
          /\ total_score(cache') = score(layout')
          /\ FirstClimb
                => current_best_score'
                    = score(optimize_normal_no_cols(start_layout, possible_swaps))]_vars

\* The returned value is the score of the layout left behind when the climb
\* is the first of its call and has accepted a swap, at a precision that
\* covers the language's trigrams.
ReturnedClimbScoreAfterSwap ==
    [][(/\ pc = "optimize_cached" /\ pc' # "optimize_cached"
        /\ FirstClimb
        /\ current_best_score > F64Min \div 2
        /\ trigram_precision >= Len(data.trigrams))
       => /\ current_best_score' = total_score(cache')
          /\ total_score(cache') = score(layout')]_vars

\* optimize_cached has returned from a call with candidates.
C24Witness ==
    /\ pc \in {"optimize_cols", "done"}
    /\ possible_swaps # <<>>
    /\ FirstClimb

\* C6: optimize returns only after a column pass that did not raise the
\* score over the climb before it.
ReturnsOnlyWithoutImprovement ==
    (pc = "done" /\ entry = "optimize") => with_col_score <= optimized_score

\* A column pass has ended above the climb before it.
C6Witness == pc = "while" /\ pass = 2 /\ with_col_score > optimized_score

CharCount(matrix, c) == Cardinality({i \in Positions : matrix[i] = c})

\* C8: whatever swaps the optimizer has made, the matrix holds the
\* characters it started with, as often, and the reverse index maps every
\* character to the position where it sits.
LayoutPermutation ==
    /\ \A c \in Chars :
        CharCount(layout.matrix, c) = CharCount(start_layout.matrix, c)
    /\ \A i \in Positions : layout.reverse_index[layout.matrix[i]] = i

\* The second col_perms call of a column pass is under way on a layout that
\* the climb has changed.
C8Witness ==
    /\ pc = "col_perms"
    /\ pass = 2
    /\ step > 1
    /\ current_best_score > F64Min \div 2

(***************************************************************************)
(* Properties of generate_n (SpecPar).                                     *)
(***************************************************************************)
\* How many tasks hold the layout x in f, a function on Tasks.
Count(f, x) == Cardinality({t \in Tasks : f[t] = x})

\* When every task has returned, the final layouts are, as a multiset, the
\* layouts that generate returns when it is run on each task's starting
\* layout alone.
FinalLayoutsAgree ==
    (\A t \in Tasks : tasks[t].pc = "done")
    => \E seq \in {[t \in Tasks |-> generate(unwrap(tasks[t].start)).layout]} :
        \E par \in {[t \in Tasks |-> unwrap(collected[t]).layout]} :
            \A t \in Tasks :
                /\ Count(par, par[t]) = Count(seq, par[t])
                /\ Count(par, seq[t]) = Count(seq, seq[t])

\* A step leaves the generator's state as it was, and leaves the cache and
\* the result of every task that did not take it as they were.
TasksOwnTheirState ==
    /\ genVars' = genVars
    /\ \A t \in Tasks :
        tasks'[t] = tasks[t] => (caches'[t] = caches[t] /\ collected'[t] = collected[t])

\* C9: the tasks of generate_n each own their layout and cache and only read
\* the generator, and for every interleaving of their steps the multiset of
\* final layouts is the one of the same tasks run one after the other on the
\* same starting layouts.
ParallelEquivalence == []FinalLayoutsAgree /\ [][TasksOwnTheirState]_vars

\* Both tasks have returned, from different starting layouts, and generate_n
\* has published the sorted list.
C9Witness ==
    /\ \A t \in Tasks : tasks[t].pc = "done"
    /\ tasks[1].start # tasks[2].start
    /\ temp_generated # None

(***************************************************************************)
(* Properties of the registry (SpecReg).                                   *)
(***************************************************************************)
\* C10: once load_layouts has returned, and after every save, the registry
\* iterates in non-increasing order of score.
RegistryOrder ==
    regpc = "loaded"
    => \A k \in 1 .. (Len(layouts) - 1) : layouts[k].score >= layouts[k + 1].score

\* The same for the registry of LayoutAnalysis alone.
AnalysisRegistryOrder ==
    (regpc = "loaded" /\ owner = "LayoutAnalysis")
    => \A k \in 1 .. (Len(layouts) - 1) : layouts[k].score >= layouts[k + 1].score

\* A registry of several layouts with different scores has been loaded.
C10Witness ==
    /\ regpc = "loaded"
    /\ \E j, k \in 1 .. Len(layouts) : layouts[j].score # layouts[k].score

\* The characters on the right-hand keys of the home row (positions 16..19:
\* "jkl;" on QWERTY) and on its left-hand keys (positions 10..13: "asdf").
HomeRowRight(l) == <<l.matrix[16], l.matrix[17], l.matrix[18], l.matrix[19]>>

HomeRowLeft(l) == <<l.matrix[10], l.matrix[11], l.matrix[12], l.matrix[13]>>

\* After save(layout, None) that found the registry `s.layouts`: the name is
\* `stem` followed by the smallest positive integer that makes it absent from
\* that registry, and every layout and every file that existed is still there,
\* unchanged.
PlaceholderNamed(s, stem) ==
    /\ \E i \in 1 .. 999 :
        /\ s.new_name = stem \o Decimal(i)
        /\ ~contains_key(s.layouts, s.new_name)
        /\ \A j \in 1 .. (i - 1) : contains_key(s.layouts, stem \o Decimal(j))
    /\ \A k \in 1 .. Len(s.layouts) : \E j \in 1 .. Len(layouts) : layouts[j] = s.layouts[k]
    /\ Len(layouts) = Len(s.layouts) + 1
    /\ \A k \in 1 .. Len(s.files) : files[k] = s.files[k]

\* C11: save(layout, None) stores the layout under the characters of the home
\* row's right-hand keys followed by the smallest positive integer that makes
\* the name unique, and overwrites no existing layout.
PlaceholderNaming ==
    (saved # None /\ unwrap(saved).name = None)
    => PlaceholderNamed(unwrap(saved), HomeRowRight(unwrap(saved).layout))

\* The same with the characters of the home row's left-hand keys.
PlaceholderNamingHomeLeft ==
    (saved # None /\ unwrap(saved).name = None)
    => PlaceholderNamed(unwrap(saved), HomeRowLeft(unwrap(saved).layout))

\* An unnamed save of a layout whose first placeholder name was taken.
C11Witness ==
    /\ saved # None
    /\ unwrap(saved).name = None
    /\ contains_key(unwrap(saved).layouts, HomeRowLeft(unwrap(saved).layout) \o Decimal(1))
    /\ HomeRowLeft(unwrap(saved).layout) # HomeRowRight(unwrap(saved).layout)

\* The .kb files of the directory that do not parse into a layout.
Malformed(fs) == SelectSeq(fs, LAMBDA f : f.ext = "kb" /\ try_from(f.content) = None)

\* The .kb files of the directory that parse into a layout.
WellFormed(fs) == SelectSeq(fs, LAMBDA f : f.ext = "kb" /\ try_from(f.content) # None)

\* load_layouts has returned with every well-formed file in the registry, no
\* malformed one, and every malformed one reported.
LoadedSkippingMalformed ==
    /\ regpc = "loaded"
    /\ nsaves = 0
        => /\ {layouts[k].name : k \in 1 .. Len(layouts)}
                = {WellFormed(files)[k].name : k \in 1 .. Len(WellFormed(files))}
           /\ {reported[k] : k \in 1 .. Len(reported)}
                = {Malformed(files)[k].name : k \in 1 .. Len(Malformed(files))}

\* C12: a .kb file that does not parse is reported and left out of the
\* registry, every other well-formed file is loaded, and load_layouts returns
\* normally: a malformed file never aborts loading.
NonFatalParseErrors == regpc # "new" => LoadedSkippingMalformed

\* The same for LayoutGeneration::load_layouts alone.
GenerationNonFatalParseErrors ==
    (regpc # "new" /\ owner = "LayoutGeneration") => LoadedSkippingMalformed

\* load_layouts has run on a directory that holds a malformed .kb file.
C12Witness ==
    /\ regpc # "new"
    /\ Malformed(files) # <<>>

(***************************************************************************)
(* Properties of the language loader (SpecLang).                           *)
(***************************************************************************)
\* The loaded trigrams back in characters, with their frequencies.
Decoded(res) ==
    [k \in 1 .. Len(res) |->
        [trigram |-> [j \in 1 .. 3 |-> from_single(convert_u8, res[k][1][j])],
         freq |-> res[k][2]]]

\* C13: the loaded trigram sequence is the sub-sequence of the input trigrams,
\* in input order and with their frequencies, whose first and second
\* characters differ and whose second and third differ; one whose first and
\* third are equal is kept.
TrigramLoading ==
    langpc = "done"
    => Decoded(unwrap(loaded))
        = SelectSeq(inter.trigrams,
                    LAMBDA e : e.trigram[1] # e.trigram[2] /\ e.trigram[2] # e.trigram[3])

\* A file with "aba", a trigram with a doubled character and another trigram
\* has been loaded.
C13Witness ==
    /\ langpc = "done"
    /\ Len(unwrap(loaded)) = 2
    /\ Len(inter.trigrams) = 3
    /\ \E k \in 1 .. 2 : unwrap(loaded)[k][1][1] = unwrap(loaded)[k][1][3]

====
